---- MODULE Spec2Model ----
(***************************************************************************)
(* Model of the SML pipeline of python-composer: pitch resolution and      *)
(* duration quantisation (src/src/dsl/sml_ast.py), bar layout              *)
(* (ClipBar.layout, Clip.validate_and_layout) and the two expression-curve *)
(* evaluators (services/midi_export.py, services/player/midi_builder.py),  *)
(* the batch MIDI renderer (composition_db_dict_to_midi_bytes), the DSL    *)
(* parser (dsl/dsl_parser.py, composition_from_smil_dict), the SML clip    *)
(* conversion (OSCFacade.sml_to_dsl_clip), the live player                 *)
(* (MidiClipPlayer._schedule_events, play_dsl_clip), the database session  *)
(* and the clip and composition services (repository/database.py,          *)
(* services/clip_service.py, services/composition_service.py) and the      *)
(* facade operations built on them (OSCFacade.load_dsl_to_db,              *)
(* composition_to_dsl, play_clip, play_clip_from_sml).                     *)
(*                                                                         *)
(* A Python str is modelled as a sequence of one-character strings.  The   *)
(* two non-ASCII accidentals accepted by PITCH_REGEX are written           *)
(* "U+266F" (sharp sign) and "U+266D" (flat sign).                         *)
(***************************************************************************)
EXTENDS Integers, Sequences, FiniteSets, TLC

VARIABLES
    \* ---- pitch resolver ----
    s,          \* argument of Pitch.from_string
    n,          \* argument of Pitch.from_midi
    pitch,      \* result of the last constructor call
    pitch2,     \* result of from_midi applied to pitch.midi
    ppc,        \* position of the pitch scenario
    \* ---- duration quantiser ----
    dname,      \* DurationSpec.name
    dupb,       \* DurationSpec.units_per_bar
    dspec,      \* the DurationSpec after compute_units (or the error)
    ditem,      \* the NoteItem / RestItem built from dspec (or the error)
    dpc,        \* position of the duration scenario
    \* ---- bar layout ----
    raw,        \* the SML bar dict and the units_per_bar it is parsed with
    bar,        \* the ClipBar: items, units_per_bar
    outcome,    \* result of the last layout call on the bar
    prev,       \* bar and outcome before the last layout call
    calls,      \* number of layout calls made on the bar
    bpc,        \* position of the bar scenario
    \* ---- curve evaluator ----
    curve,      \* list of control points [time, value]
    target,     \* target_time
    batch,      \* result of midi_export._interpolate_curve
    live,       \* result of MidiClipPlayer._interpolate_curve
    cpc,        \* position of the curve scenario
    \* ---- batch renderer ----
    rdata,      \* the composition dict handed to the renderer
    rout,       \* what the renderer returned: the tracks, or the exception
    rpc,        \* position of the render scenario
    \* ---- DSL parser ----
    project,        \* the project dict handed to parse_project
    clip_library,   \* DSLParser.clip_library
    lib0,           \* the clip library as _parse_clip_library built it
    ptracks,        \* tracks parsed so far by parse_project
    presult,        \* what parse_project returned
    smil,           \* what composition_from_smil_dict returned
    parse_pc,       \* position of the parser scenario
    \* ---- clip conversion ----
    sml_clip,   \* the SML clip dict handed to sml_to_dsl_clip
    clip_ast,   \* the Clip built by clip_from_smil_dict
    dsl_clip,   \* the dict sml_to_dsl_clip returned, or the exception
    clip_pc,    \* position of the conversion scenario
    \* ---- live player ----
    live_clip,  \* the clip handed to play_dsl_clip
    loop,       \* MidiClipPlayer.loop
    sched,      \* events: the schedule of the running pass
    walked,     \* number of events of the schedule already walked
    elapsed,    \* time.time() - start_time
    now_read,   \* now - start_time as read for the current event
    slept,      \* argument of the sleep made for the current event
    dispatched, \* events sent to the sink in the running pass
    pass1,      \* events sent to the sink in the first pass
    passes,     \* completed passes
    play_pc,    \* position of play_dsl_clip
    \* ---- live session ----
    cancel_requested,   \* a cancellation of the session has been requested
    sent_after_cancel,  \* dispatches made since the request
    \* ---- database and clip service ----
    db,         \* the committed contents of the database
    db0,        \* the database before the service call
    svc_arg,    \* the clip dict handed to create_clip_from_dsl
    svc_out,    \* what the call returned, or the exception
    fetched,    \* what get_clip_with_bars_and_notes returned
    svc_pc,     \* position of the service scenario
    \* ---- project load and export ----
    load_project,   \* the project dict handed to load_dsl_to_db
    fk_enforced,    \* the backend enforces foreign keys
    load_out,       \* the DSLLoadResult, or the exception
    exported,       \* the project dict composition_to_dsl returned
    reparsed,       \* parse_project of the exported project
    load_pc         \* position of the load scenario

pitchVars == <<s, n, pitch, pitch2, ppc>>
durVars   == <<dname, dupb, dspec, ditem, dpc>>
barVars   == <<raw, bar, outcome, prev, calls, bpc>>
curveVars == <<curve, target, batch, live, cpc>>
renderVars == <<rdata, rout, rpc>>
parserVars == <<project, clip_library, lib0, ptracks, presult, smil, parse_pc>>
clipVars  == <<sml_clip, clip_ast, dsl_clip, clip_pc>>
playVars  == <<live_clip, loop, sched, walked, elapsed, now_read, slept, dispatched,
               pass1, passes, play_pc>>
sessVars  == <<cancel_requested, sent_after_cancel>>
dbVars    == <<db, db0, svc_arg, svc_out, fetched, svc_pc>>
loadVars  == <<load_project, fk_enforced, load_out, exported, reparsed, load_pc>>
laterVars == <<dbVars, loadVars>>
newVars   == <<sessVars, laterVars>>
restVars  == <<renderVars, parserVars, clipVars, playVars, newVars>>
vars      == <<pitchVars, durVars, barVars, curveVars, restVars>>

--------------------------------------------------------------------------
(* Bounds *)

MaxLen == 4          \* longest pitch string drawn
MidiMargin == 3      \* from_midi is tried on -MidiMargin .. 127+MidiMargin
MaxGrid == 64        \* largest units_per_bar a DurationSpec is built with
MaxItems == 4        \* most items in an enumerated bar
MaxCalls == 3        \* layout calls made on one bar
MaxPoints == 3       \* most control points in a curve
MaxTime == 4         \* largest control-point time
MaxNotes == 2        \* most notes in a drawn clip bar
MaxRefs == 2         \* most bar refs in a drawn track
MaxTracks == 17      \* most tracks in a rendered composition
BeatUnit == 2        \* note times are multiples of 1/BeatUnit beat
MaxLength == 3       \* largest length_bars of a drawn clip placement
MaxBars == 3         \* most bars in a converted SML clip
MaxLag == 30         \* largest clock advance between two looks at the clock
MaxPasses == 3       \* completed passes of the live player that are counted
MaxLate == 3         \* dispatches counted after a cancellation request

--------------------------------------------------------------------------
(* Generic helpers *)

\* F applied to the value of v: a Python variable is assigned once and
\* read many times, so v is evaluated once and F sees its value
Once(v, F(_)) == CHOOSE r \in {F(x) : x \in {v}} : TRUE

None == [ok |-> FALSE, name |-> "", octave |-> 0, midi |-> 0, err |-> "none"]

SeqsUpTo(S, k) == UNION {[1..m -> S] : m \in 0..k}

Max(a, b) == IF a >= b THEN a ELSE b

\* dict.get of a missing key, and SQL NULL
NoneValue == 0 - 999

Get(d, key) == IF key \in DOMAIN d THEN d[key] ELSE NoneValue

--------------------------------------------------------------------------
(* Pitch resolver: sml_ast.py, Pitch *)

UpperLetters == {"A", "B", "C", "D", "E", "F", "G"}
LowerLetters == {"a", "b", "c", "d", "e", "f", "g"}
Digits       == {"0", "1", "2", "3", "4", "5", "6", "7", "8", "9"}
AccidentalChars == {"#", "b", "U+266F", "U+266D"}
Whitespace   == {" "}

DigitVal(c) ==
    CASE c = "0" -> 0 [] c = "1" -> 1 [] c = "2" -> 2 [] c = "3" -> 3
      [] c = "4" -> 4 [] c = "5" -> 5 [] c = "6" -> 6 [] c = "7" -> 7
      [] c = "8" -> 8 [] c = "9" -> 9

Upper(c) ==
    CASE c = "a" -> "A" [] c = "b" -> "B" [] c = "c" -> "C" [] c = "d" -> "D"
      [] c = "e" -> "E" [] c = "f" -> "F" [] c = "g" -> "G" [] OTHER -> c

\* str.strip(): drop leading and trailing whitespace
RECURSIVE LStrip(_)
LStrip(str) ==
    IF str # <<>> /\ Head(str) \in Whitespace THEN LStrip(Tail(str)) ELSE str

RECURSIVE RStrip(_)
RStrip(str) ==
    IF str # <<>> /\ str[Len(str)] \in Whitespace
    THEN RStrip(SubSeq(str, 1, Len(str) - 1)) ELSE str

Strip(str) == RStrip(LStrip(str))

\* int() of a non-empty run of decimal digits
RECURSIVE DigitsToInt(_)
DigitsToInt(ds) ==
    IF ds = <<>> THEN 0
    ELSE DigitsToInt(SubSeq(ds, 1, Len(ds) - 1)) * 10 + DigitVal(ds[Len(ds)])

AllDigits(ds) == ds # <<>> /\ \A i \in 1..Len(ds) : ds[i] \in Digits

\* int(oct_str) for a string matching -?\d+
IntOfStr(str) ==
    IF str[1] = "-" THEN 0 - DigitsToInt(Tail(str)) ELSE DigitsToInt(str)

\* PITCH_REGEX = ^([A-Ga-g])([#b U+266F U+266D]?)(-?\d+)$ ; the groups, or
\* matched = FALSE.  The accidental group is greedy; when the second
\* character is an accidental character no match without it exists, since
\* the octave group cannot start with it.
PitchRegexMatch(str) ==
    LET noMatch == [matched |-> FALSE, letter |-> "", accidental |-> "", oct_str |-> <<>>]
        OctOk(o) == IF o # <<>> /\ o[1] = "-" THEN AllDigits(Tail(o)) ELSE AllDigits(o)
    IN  IF str = <<>> \/ str[1] \notin (UpperLetters \cup LowerLetters) THEN noMatch
        ELSE LET rest == Tail(str)
                 hasAcc == rest # <<>> /\ rest[1] \in AccidentalChars
                 acc == IF hasAcc THEN rest[1] ELSE ""
                 oct == IF hasAcc THEN Tail(rest) ELSE rest
             IN  IF OctOk(oct)
                 THEN [matched |-> TRUE, letter |-> str[1], accidental |-> acc, oct_str |-> oct]
                 ELSE noMatch

\* accidental.replace(sharp sign, '#').replace(flat sign, 'b')
NormalizeAccidental(a) ==
    IF a = "U+266F" THEN "#" ELSE IF a = "U+266D" THEN "b" ELSE a

base_map ==
    [l \in UpperLetters |->
        CASE l = "C" -> 0 [] l = "D" -> 2 [] l = "E" -> 4 [] l = "F" -> 5
          [] l = "G" -> 7 [] l = "A" -> 9 [] l = "B" -> 11]

PitchError(msg) == [ok |-> FALSE, name |-> "", octave |-> 0, midi |-> 0, err |-> msg]
PitchOk(nm, oct, m) == [ok |-> TRUE, name |-> nm, octave |-> oct, midi |-> m, err |-> ""]

\* mutant: sharp and flat exchanged
AccidentalOffset_swapped(accidental) ==
    IF accidental = "#" THEN 0 - 1 ELSE IF accidental = "b" THEN 1 ELSE 0

AccidentalOffset(accidental) ==
    IF accidental = "#" THEN 1 ELSE IF accidental = "b" THEN 0 - 1 ELSE 0

\* mutant: upper limit off by one
MidiInRange_128(m) == ~(m < 0 \/ m > 128)

MidiInRange(m) == ~(m < 0 \/ m > 127)

from_string(str) ==
    LET m == PitchRegexMatch(Strip(str))
    IN  IF ~m.matched THEN PitchError("Invalid pitch string")
        ELSE LET letter == Upper(m.letter)
                 accidental == NormalizeAccidental(m.accidental)
                 octave == IntOfStr(m.oct_str)
             IN  IF letter \notin DOMAIN base_map THEN PitchError("Invalid pitch letter")
                 ELSE LET semitone == base_map[letter] + AccidentalOffset(accidental)
                          midi == (octave + 1) * 12 + semitone
                      IN  IF ~MidiInRange(midi) THEN PitchError("out of range")
                          ELSE PitchOk(<<letter, accidental>>, octave, midi)

rev_map ==
    [k \in 0..11 |->
        CASE k = 0 -> <<"C", "">>  [] k = 1 -> <<"C", "#">> [] k = 2 -> <<"D", "">>
          [] k = 3 -> <<"D", "#">> [] k = 4 -> <<"E", "">>  [] k = 5 -> <<"F", "">>
          [] k = 6 -> <<"F", "#">> [] k = 7 -> <<"G", "">>  [] k = 8 -> <<"G", "#">>
          [] k = 9 -> <<"A", "">>  [] k = 10 -> <<"A", "#">> [] k = 11 -> <<"B", "">>]

\* mutant: midi rebuilt from octave and semitone without the +1
from_midi_recomputed(midi) ==
    IF ~MidiInRange(midi) THEN PitchError("midi out of range")
    ELSE LET octave == (midi \div 12) - 1
             semitone == midi % 12
         IN  PitchOk(rev_map[semitone], octave, octave * 12 + semitone)

from_midi(midi) ==
    IF ~MidiInRange(midi) THEN PitchError("midi out of range")
    ELSE LET octave == (midi \div 12) - 1
             semitone == midi % 12
         IN  PitchOk(rev_map[semitone], octave, midi)

\* the characters pitch strings are drawn from
PitchAlphabet ==
    UpperLetters \cup {"b", "H", "#", "U+266F", "-", " ", "1", "3", "4", "9"}

PitchIdle ==
    /\ s = <<>> /\ n = 0 /\ pitch = None /\ pitch2 = None /\ ppc = "idle"

InitPitch ==
    /\ \/ (\E m \in 0..MaxLen : s \in [1..m -> PitchAlphabet]) /\ n = 60
       \/ s = <<"C", "4">> /\ n \in (0 - MidiMargin)..(127 + MidiMargin)
    /\ pitch = None /\ pitch2 = None
    /\ ppc = "start"

\* Pitch.from_string(s)
CallFromString ==
    /\ ppc = "start"
    /\ pitch' = from_string(s)
    /\ ppc' = "from_string"
    /\ UNCHANGED <<s, n, pitch2>>

\* Pitch.from_midi(n)
CallFromMidi ==
    /\ ppc = "start"
    /\ pitch' = from_midi(n)
    /\ ppc' = "from_midi"
    /\ UNCHANGED <<s, n, pitch2>>

\* Pitch.from_midi(Pitch.from_string(s).midi)
CallRoundTrip ==
    /\ ppc = "from_string"
    /\ pitch.ok
    /\ pitch2' = from_midi(pitch.midi)
    /\ ppc' = "round_trip"
    /\ UNCHANGED <<s, n, pitch>>

--------------------------------------------------------------------------
(* Duration quantiser: sml_ast.py, DURATION_UNIT_MAP and DurationSpec *)

DEFAULT_UNITS_PER_BAR == 32

\* mutant: ties rounded up
RoundHalfUp(num, den) ==
    LET q == num \div den
        r == num % den
    IN  IF 2 * r < den THEN q ELSE q + 1

\* Python round() of the rational num/den (den > 0): nearest integer, ties
\* to the even neighbour.  base * scale is num/32 and is exact in binary
\* floating point, so the rational is the float the code rounds.
RoundHalfEven(num, den) ==
    LET q == num \div den
        r == num % den
    IN  IF 2 * r < den THEN q
        ELSE IF 2 * r > den THEN q + 1
        ELSE IF q % 2 = 0 THEN q ELSE q + 1

DurationWords ==
    {"whole", "half", "quarter", "eighth", "sixteenth", "thirty_second",
     "dotted_half", "dotted_quarter", "dotted_eighth",
     "triplet_quarter", "triplet_eighth", "triplet_sixteenth"}

DURATION_UNIT_MAP ==
    [w \in DurationWords |->
        CASE w = "whole" -> 32
          [] w = "half" -> 16
          [] w = "quarter" -> 8
          [] w = "eighth" -> 4
          [] w = "sixteenth" -> 2
          [] w = "thirty_second" -> 1
          [] w = "dotted_half" -> RoundHalfEven(16 * 3, 2)
          [] w = "dotted_quarter" -> RoundHalfEven(8 * 3, 2)
          [] w = "dotted_eighth" -> RoundHalfEven(4 * 3, 2)
          [] w = "triplet_quarter" -> RoundHalfEven(8 * 2, 3)
          [] w = "triplet_eighth" -> RoundHalfEven(4 * 2, 3)
          [] w = "triplet_sixteenth" -> RoundHalfEven(2 * 2, 3)]

\* A duration name is a word (word # "") or a literal spelled in characters.
Word(w) == [word |-> w, lit |-> <<>>]
Literal(cs) == [word |-> "", lit |-> cs]

\* int(key): the integer a literal spells, or no integer (ValueError)
IntParses(key) ==
    /\ key.word = ""
    /\ IF key.lit # <<>> /\ key.lit[1] = "-"
       THEN AllDigits(Tail(key.lit)) ELSE AllDigits(key.lit)

DurationError(msg) == [ok |-> FALSE, units_per_bar |-> 0, units |-> 0, err |-> msg]

\* max(1, int(round(base * scale))), scale = units_per_bar / 32
ScaledUnits(base, units_per_bar) ==
    Max(1, RoundHalfEven(base * units_per_bar, DEFAULT_UNITS_PER_BAR))

\* DurationSpec(name=key, units_per_bar=upb) after the compute_units validator
compute_units(key, units_per_bar) ==
    IF key.word \in DOMAIN DURATION_UNIT_MAP
    THEN [ok |-> TRUE, units_per_bar |-> units_per_bar,
          units |-> ScaledUnits(DURATION_UNIT_MAP[key.word], units_per_bar), err |-> ""]
    ELSE IF IntParses(key)
    THEN [ok |-> TRUE, units_per_bar |-> units_per_bar,
          units |-> ScaledUnits(IntOfStr(key.lit), units_per_bar), err |-> ""]
    ELSE DurationError("Unknown duration token")

\* start_unit / duration_units before layout (Python None)
Unset == 0 - 1

ItemError(msg) ==
    [ok |-> FALSE, kind |-> "", midi |-> 0, units |-> 0,
     start_unit |-> Unset, duration_units |-> Unset, err |-> msg]

\* NoteItem(pitch=p, duration=d) after validate_pitch_and_duration
NoteItemNew(p, d) ==
    IF ~p.ok THEN ItemError("NoteItem requires a valid Pitch with midi value")
    ELSE IF d.units <= 0 THEN ItemError("Computed duration units must be positive")
    ELSE [ok |-> TRUE, kind |-> "note", midi |-> p.midi, units |-> d.units,
          start_unit |-> Unset, duration_units |-> Unset, err |-> ""]

\* RestItem(duration=d) after validate_duration
RestItemNew(d) ==
    IF d.units <= 0 THEN ItemError("Rest must have positive duration")
    ELSE [ok |-> TRUE, kind |-> "rest", midi |-> 0, units |-> d.units,
          start_unit |-> Unset, duration_units |-> Unset, err |-> ""]

\* the duration names a DurationSpec is built with
DurationLiterals ==
    {Literal(cs) : cs \in SeqsUpTo({"-", "0", "1", "5"}, 2)}

DurationNames ==
    {Word(w) : w \in DurationWords \cup {"sixteenths", "none"}} \cup DurationLiterals

DurIdle ==
    /\ dname = Word("") /\ dupb = 0 /\ dspec = DurationError("none")
    /\ ditem = ItemError("none") /\ dpc = "idle"

InitDuration ==
    /\ dname \in DurationNames
    /\ dupb \in 1..MaxGrid
    /\ dspec = DurationError("none")
    /\ ditem = ItemError("none")
    /\ dpc = "start"

\* DurationSpec(name=dname, units_per_bar=dupb)
CallComputeUnits ==
    /\ dpc = "start"
    /\ dspec' = compute_units(dname, dupb)
    /\ dpc' = IF dspec'.ok THEN "spec" ELSE "error"
    /\ UNCHANGED <<dname, dupb, ditem>>

\* NoteItem(pitch=Pitch.from_string("C4"), duration=dspec)
CallNoteItem ==
    /\ dpc = "spec"
    /\ ditem' = NoteItemNew(from_string(<<"C", "4">>), dspec)
    /\ dpc' = "item"
    /\ UNCHANGED <<dname, dupb, dspec>>

\* RestItem(duration=dspec)
CallRestItem ==
    /\ dpc = "spec"
    /\ ditem' = RestItemNew(dspec)
    /\ dpc' = "item"
    /\ UNCHANGED <<dname, dupb, dspec>>

--------------------------------------------------------------------------
(* Bar layout: sml_ast.py, smil_bar_from_dict, ClipBar, Clip *)

BarError(msg) == [ok |-> FALSE, items |-> <<>>, units_per_bar |-> 0, err |-> msg]

\* one pass of the item loop of smil_bar_from_dict: the item built from
\* the raw item, or the error the pass raises
BuildItem(it, units_per_bar) ==
    LET p == from_string(it.note)
        dur == compute_units(it.duration, units_per_bar)
    IN  IF it.kind = "note"
        THEN IF ~p.ok THEN ItemError(p.err)
             ELSE IF ~dur.ok THEN ItemError(dur.err)
             ELSE NoteItemNew(p, dur)
        ELSE IF it.kind = "rest"
        THEN IF ~dur.ok THEN ItemError(dur.err) ELSE RestItemNew(dur)
        ELSE ItemError("Unknown bar item")

\* the loop stops at the first pass that raises
smil_bar_from_dict(d, units_per_bar) ==
    LET built == [i \in 1..Len(d) |-> BuildItem(d[i], units_per_bar)]
        failed == {i \in 1..Len(d) : ~built[i].ok}
    IN  IF failed # {}
        THEN BarError(built[CHOOSE i \in failed : \A j \in failed : i <= j].err)
        ELSE [ok |-> TRUE, items |-> built, units_per_bar |-> units_per_bar, err |-> ""]

\* the for loop of layout from item i on: each item gets start_unit and
\* duration_units assigned in place and the cursor advances
RECURSIVE LayoutItems(_, _, _)
LayoutItems(items, i, cursor) ==
    IF i > Len(items) THEN [items |-> items, cursor |-> cursor]
    ELSE LET dur_units == items[i].units
         IN  LayoutItems([items EXCEPT ![i].start_unit = cursor,
                                       ![i].duration_units = dur_units],
                         i + 1, cursor + dur_units)

\* mutant: cursor starts at 1
layout_from_one(b) ==
    LET r == LayoutItems(b.items, 1, 1)
    IN  [bar |-> [b EXCEPT !.items = r.items],
         cursor |-> r.cursor,
         raised |-> r.cursor > b.units_per_bar]

\* mutant: a bar that exactly fills its capacity overflows
layout_overflow_ge(b) ==
    LET r == LayoutItems(b.items, 1, 0)
    IN  [bar |-> [b EXCEPT !.items = r.items],
         cursor |-> r.cursor,
         raised |-> r.cursor >= b.units_per_bar]

\* mutant: incremental append, the cursor resumes after the items laid out
layout_incremental(b) ==
    LET k == Len(b.items)
        start == IF k > 0 /\ b.items[k].start_unit # Unset
                 THEN b.items[k].start_unit + b.items[k].duration_units ELSE 0
        r == LayoutItems(b.items, 1, start)
    IN  [bar |-> [b EXCEPT !.items = r.items],
         cursor |-> r.cursor,
         raised |-> r.cursor > b.units_per_bar]

\* ClipBar.layout(): the items are assigned before the overflow test, so
\* they stay assigned when it raises
layout(b) ==
    LET r == LayoutItems(b.items, 1, 0)
    IN  [bar |-> [b EXCEPT !.items = r.items],
         cursor |-> r.cursor,
         raised |-> r.cursor > b.units_per_bar]

\* NoteItem.to_spec_note / RestItem.to_spec_rest; beats are kept as unit
\* counts over units_per_beat
to_spec_note(it) ==
    [absolute_pitch |-> IF it.kind = "note" THEN it.midi ELSE 0,
     start |-> it.start_unit,
     duration |-> it.units,
     is_rest |-> it.kind = "rest"]

\* the notes list of ClipBar.to_spec_clipbar, built after its layout call
SpecNotes(b) == [i \in 1..Len(b.items) |-> to_spec_note(b.items[i])]

NoOutcome == [by |-> "none", raised |-> FALSE, cursor |-> 0, notes |-> <<>>]
NoBar == BarError("none")
NoPrev == [laid |-> FALSE, bar |-> NoBar, outcome |-> NoOutcome]

BarIdle ==
    /\ raw = [d |-> <<>>, units_per_bar |-> 0] /\ bar = NoBar /\ outcome = NoOutcome
    /\ prev = NoPrev /\ calls = 0 /\ bpc = "idle"

BarTokens == {"whole", "quarter", "thirty_second", "triplet_eighth"}
BarGrids == {16, 32}
LongBarLens == {32, 33}

RawItems ==
    {[kind |-> k, note |-> <<"C", "4">>, duration |-> Word(w)] :
        k \in {"note", "rest"}, w \in BarTokens}

LongBars ==
    {[i \in 1..k |-> [kind |-> "note", note |-> <<"C", "4">>,
                      duration |-> Word("thirty_second")]] : k \in LongBarLens}

InitBar ==
    /\ raw \in [d : SeqsUpTo(RawItems, MaxItems) \cup LongBars, units_per_bar : BarGrids]
    /\ bar = NoBar /\ outcome = NoOutcome /\ prev = NoPrev
    /\ calls = 0 /\ bpc = "raw"

\* smil_bar_from_dict(raw.d, units_per_bar=raw.units_per_bar)
BuildBar ==
    /\ bpc = "raw"
    /\ bar' = smil_bar_from_dict(raw.d, raw.units_per_bar)
    /\ bpc' = IF bar'.ok THEN "built" ELSE "error"
    /\ UNCHANGED <<raw, outcome, prev, calls>>

\* bar.layout()
CallLayout ==
    /\ bpc = "built" /\ calls < MaxCalls
    /\ LET r == layout(bar)
       IN  /\ bar' = r.bar
           /\ outcome' = [by |-> "layout", raised |-> r.raised,
                          cursor |-> r.cursor, notes |-> <<>>]
    /\ prev' = [laid |-> calls > 0, bar |-> bar, outcome |-> outcome]
    /\ calls' = calls + 1
    /\ UNCHANGED <<raw, bpc>>

\* Clip(bars=[bar]).validate_and_layout()
CallValidateAndLayout ==
    /\ bpc = "built" /\ calls < MaxCalls
    /\ LET r == layout([bar EXCEPT !.units_per_bar = DEFAULT_UNITS_PER_BAR])
       IN  /\ bar' = r.bar
           /\ outcome' = [by |-> "validate_and_layout", raised |-> r.raised,
                          cursor |-> r.cursor, notes |-> <<>>]
    /\ prev' = [laid |-> calls > 0, bar |-> bar, outcome |-> outcome]
    /\ calls' = calls + 1
    /\ UNCHANGED <<raw, bpc>>

\* bar.to_spec_clipbar(clip_id)
CallToSpecClipbar ==
    /\ bpc = "built" /\ calls < MaxCalls
    /\ LET r == layout(bar)
       IN  /\ bar' = r.bar
           /\ outcome' = [by |-> "to_spec_clipbar", raised |-> r.raised,
                          cursor |-> r.cursor,
                          notes |-> IF r.raised THEN <<>> ELSE SpecNotes(r.bar)]
    /\ prev' = [laid |-> calls > 0, bar |-> bar, outcome |-> outcome]
    /\ calls' = calls + 1
    /\ UNCHANGED <<raw, bpc>>

\* Clip(bars=[bar]).to_spec_clip(): validate_and_layout(), then
\* to_spec_clipbar() lays the bar out a second time.  prev keeps the bar as
\* validate_and_layout left it.
CallToSpecClip ==
    /\ bpc = "built" /\ calls + 1 < MaxCalls
    /\ LET v == layout([bar EXCEPT !.units_per_bar = DEFAULT_UNITS_PER_BAR])
           r == layout(v.bar)
       IN  IF v.raised
           THEN /\ bar' = v.bar
                /\ outcome' = [by |-> "validate_and_layout", raised |-> TRUE,
                               cursor |-> v.cursor, notes |-> <<>>]
                /\ prev' = [laid |-> calls > 0, bar |-> bar, outcome |-> outcome]
                /\ calls' = calls + 1
           ELSE /\ bar' = r.bar
                /\ outcome' = [by |-> "to_spec_clip", raised |-> r.raised,
                               cursor |-> r.cursor,
                               notes |-> IF r.raised THEN <<>> ELSE SpecNotes(r.bar)]
                /\ prev' = [laid |-> TRUE, bar |-> v.bar,
                            outcome |-> [by |-> "validate_and_layout", raised |-> FALSE,
                                         cursor |-> v.cursor, notes |-> <<>>]]
                /\ calls' = calls + 2
    /\ UNCHANGED <<raw, bpc>>

--------------------------------------------------------------------------
(* Expression curve evaluators: midi_export._interpolate_curve and         *)
(* MidiClipPlayer._interpolate_curve.  Times and values are integers (a    *)
(* common time denominator does not change the ratio); the interpolated    *)
(* quantity is the rational num/den and Python int() truncates it toward   *)
(* zero.                                                                   *)

\* int(num/den) for den > 0
TruncDiv(num, den) ==
    IF num >= 0 THEN num \div den ELSE 0 - ((0 - num) \div den)

\* bisect.bisect_right(a, x): the loop on lo, hi (0-based positions)
RECURSIVE BisectLoop(_, _, _, _)
BisectLoop(a, x, lo, hi) ==
    IF lo < hi
    THEN LET mid == (lo + hi) \div 2
         IN  IF x < a[mid + 1] THEN BisectLoop(a, x, lo, mid)
             ELSE BisectLoop(a, x, mid + 1, hi)
    ELSE lo

bisect_right(a, x) == BisectLoop(a, x, 0, Len(a))

\* Python a[i] for a list a: negative positions count from the end
PyIndexOk(a, i) == i < Len(a) /\ i >= 0 - Len(a)
PyIndex(a, i) == IF i >= 0 THEN a[i + 1] ELSE a[Len(a) + i + 1]

CurveNone == [kind |-> "none", value |-> 0]
CurveRaise(e) == [kind |-> e, value |-> 0]
CurveValue(v) == [kind |-> "value", value |-> v]
NotEvaluated == [kind |-> "not_evaluated", value |-> 0]

Times(c) == [i \in 1..Len(c) |-> c[i].time]
Values(c) == [i \in 1..Len(c) |-> c[i].value]

\* mutant: the upper clamp returns the first value
interpolate_curve_batch_first(c, target_time) ==
    IF c = <<>> THEN CurveNone
    ELSE LET times == Times(c)
             values == Values(c)
         IN  IF target_time <= times[1] THEN CurveValue(values[1])
             ELSE IF target_time >= times[Len(times)] THEN CurveValue(values[1])
             ELSE LET idx == bisect_right(times, target_time)
                      t0 == PyIndex(times, idx - 1)
                      t1 == PyIndex(times, idx)
                      v0 == PyIndex(values, idx - 1)
                      v1 == PyIndex(values, idx)
                  IN  IF t1 = t0 THEN CurveValue(v0)
                      ELSE CurveValue(TruncDiv(v0 * (t1 - t0) + (v1 - v0) * (target_time - t0),
                                               t1 - t0))

\* midi_export._interpolate_curve(curve, target_time)
interpolate_curve_batch(c, target_time) ==
    IF c = <<>> THEN CurveNone
    ELSE LET times == Times(c)
             values == Values(c)
         IN  IF target_time <= times[1] THEN CurveValue(values[1])
             ELSE IF target_time >= times[Len(times)] THEN CurveValue(values[Len(values)])
             ELSE LET idx == bisect_right(times, target_time)
                  IN  IF ~PyIndexOk(times, idx - 1) \/ ~PyIndexOk(times, idx)
                      THEN CurveRaise("IndexError")
                      ELSE LET t0 == PyIndex(times, idx - 1)
                               t1 == PyIndex(times, idx)
                               v0 == PyIndex(values, idx - 1)
                               v1 == PyIndex(values, idx)
                           IN  IF t1 = t0 THEN CurveValue(v0)
                               ELSE CurveValue(TruncDiv(v0 * (t1 - t0) + (v1 - v0) * (target_time - t0),
                                                        t1 - t0))

\* mutant: the ratio is taken with integer division
interpolate_curve_live_floor(c, target_time) ==
    IF c = <<>> THEN CurveNone
    ELSE LET times == Times(c)
             values == Values(c)
         IN  IF target_time <= times[1] THEN CurveValue(values[1])
             ELSE IF target_time >= times[Len(times)] THEN CurveValue(values[Len(values)])
             ELSE LET idx == bisect_right(times, target_time)
                      t0 == PyIndex(times, idx - 1)
                      t1 == PyIndex(times, idx)
                      v0 == PyIndex(values, idx - 1)
                      v1 == PyIndex(values, idx)
                  IN  IF t1 = t0 THEN CurveRaise("ZeroDivisionError")
                      ELSE CurveValue(v0 + (v1 - v0) * ((target_time - t0) \div (t1 - t0)))

\* MidiClipPlayer._interpolate_curve(curve, target_time)
interpolate_curve_live(c, target_time) ==
    IF c = <<>> THEN CurveNone
    ELSE LET times == Times(c)
             values == Values(c)
         IN  IF target_time <= times[1] THEN CurveValue(values[1])
             ELSE IF target_time >= times[Len(times)] THEN CurveValue(values[Len(values)])
             ELSE LET idx == bisect_right(times, target_time)
                  IN  IF ~PyIndexOk(times, idx - 1) \/ ~PyIndexOk(times, idx)
                      THEN CurveRaise("IndexError")
                      ELSE LET t0 == PyIndex(times, idx - 1)
                               t1 == PyIndex(times, idx)
                               v0 == PyIndex(values, idx - 1)
                               v1 == PyIndex(values, idx)
                           IN  IF t1 = t0 THEN CurveRaise("ZeroDivisionError")
                               ELSE CurveValue(TruncDiv(v0 * (t1 - t0) + (v1 - v0) * (target_time - t0),
                                                        t1 - t0))

CurveValues == {0 - 7, 0 - 2, 90, 100}

CurvePoints == [time : 0..MaxTime, value : CurveValues]

CurveIdle ==
    /\ curve = <<>> /\ target = 0 /\ batch = NotEvaluated /\ live = NotEvaluated
    /\ cpc = "idle"

InitCurve ==
    /\ curve \in SeqsUpTo(CurvePoints, MaxPoints)
    /\ target \in (0 - 1)..(MaxTime + 1)
    /\ batch = NotEvaluated /\ live = NotEvaluated
    /\ cpc = "start"

\* _interpolate_curve(curve, target) of midi_export
EvalBatch ==
    /\ cpc = "start" /\ batch = NotEvaluated
    /\ batch' = interpolate_curve_batch(curve, target)
    /\ UNCHANGED <<curve, target, live, cpc>>

\* player._interpolate_curve(curve, target)
EvalLive ==
    /\ cpc = "start" /\ live = NotEvaluated
    /\ live' = interpolate_curve_live(curve, target)
    /\ UNCHANGED <<curve, target, batch, cpc>>

--------------------------------------------------------------------------
(* Batch renderer: midi_export.composition_db_dict_to_midi_bytes.  Note    *)
(* starts, durations and curve times are integers counting 1/BeatUnit of a *)
(* beat, so beats * ticks_per_beat is the rational (units * tpb)/BeatUnit  *)
(* that Python round() receives.  A message is a record; the fields a      *)
(* message type does not carry are 0.                                      *)

beats_per_bar == 4

\* a data byte of a mido channel message: the constructor raises ValueError
\* outside 0..127
DataByteOk(v) == v >= 0 /\ v <= 127

Message(type, note, velocity, channel) ==
    [type |-> type, note |-> note, velocity |-> velocity, channel |-> channel,
     tempo |-> 0, time |-> 0]

MetaMessage(type, tempo) ==
    [type |-> type, note |-> 0, velocity |-> 0, channel |-> 0,
     tempo |-> tempo, time |-> 0]

\* mido.bpm2tempo: microseconds per beat
bpm2tempo(bpm) == RoundHalfEven(60 * 1000000, bpm)

NoEvents == [err |-> "", evs |-> <<>>]
EventsError(e) == [err |-> e, evs |-> <<>>]

\* mutant: the channel is taken modulo 15
ChannelOf_mod15(track_index) == track_index % 15

\* channel = track_index % 16
ChannelOf(track_index) == track_index % 16

\* mutant: bars counted from 0, default velocity 64
NoteEvents_zero_based(note, bar_index, velocity_curve, channel, ticks_per_beat) ==
    IF note.is_rest THEN NoEvents
    ELSE LET note_pitch == note.absolute_pitch
             note_start_beats == bar_index * beats_per_bar * BeatUnit + note.start
             note_end_beats == note_start_beats + note.duration
             v == IF velocity_curve # <<>>
                  THEN interpolate_curve_batch(velocity_curve, note.start)
                  ELSE CurveValue(64)
             velocity == IF v = CurveNone THEN 64 ELSE v.value
             start_ticks == RoundHalfEven(note_start_beats * ticks_per_beat, BeatUnit)
             end_ticks == RoundHalfEven(note_end_beats * ticks_per_beat, BeatUnit)
         IN  IF v.kind \notin {"value", "none"} THEN EventsError(v.kind)
             ELSE IF ~DataByteOk(note_pitch) \/ ~DataByteOk(velocity)
             THEN EventsError("ValueError")
             ELSE [err |-> "",
                   evs |-> << [tick |-> start_ticks,
                               msg |-> Message("note_on", note_pitch, velocity, channel)],
                              [tick |-> end_ticks,
                               msg |-> Message("note_off", note_pitch, 0, channel)] >>]

\* the body of "for note in bar.get('notes', [])": the two events of a
\* note, none for a rest, or the exception raised on the way
NoteEvents(note, bar_index, velocity_curve, channel, ticks_per_beat) ==
    IF note.is_rest THEN NoEvents
    ELSE LET note_pitch == note.absolute_pitch
             note_start_beats == (bar_index - 1) * beats_per_bar * BeatUnit + note.start
             note_end_beats == note_start_beats + note.duration
             v == IF velocity_curve # <<>>
                  THEN interpolate_curve_batch(velocity_curve, note.start)
                  ELSE CurveValue(100)
             velocity == IF v = CurveNone THEN 100 ELSE v.value
             start_ticks == RoundHalfEven(note_start_beats * ticks_per_beat, BeatUnit)
             end_ticks == RoundHalfEven(note_end_beats * ticks_per_beat, BeatUnit)
         IN  IF v.kind \notin {"value", "none"} THEN EventsError(v.kind)
             ELSE IF ~DataByteOk(note_pitch) \/ ~DataByteOk(velocity)
             THEN EventsError("ValueError")
             ELSE [err |-> "",
                   evs |-> << [tick |-> start_ticks,
                               msg |-> Message("note_on", note_pitch, velocity, channel)],
                              [tick |-> end_ticks,
                               msg |-> Message("note_off", note_pitch, 0, channel)] >>]

\* events appended by the notes k.. of one clip bar
RECURSIVE BarEvents(_, _, _, _, _)
BarEvents(b, k, bar_index, channel, ticks_per_beat) ==
    IF k > Len(b.notes) THEN NoEvents
    ELSE LET e == NoteEvents(b.notes[k], bar_index, b.velocity_curve, channel,
                             ticks_per_beat)
         IN  IF e.err # "" THEN e
             ELSE LET rest == BarEvents(b, k + 1, bar_index, channel, ticks_per_beat)
                  IN  IF rest.err # "" THEN rest
                      ELSE [err |-> "", evs |-> e.evs \o rest.evs]

\* clips_by_id.get(clip_id) and the clip_bar_index range test: the two
\* "continue" branches
Resolves(clips, bar_ref) ==
    /\ bar_ref.clip_id \in DOMAIN clips
    /\ ~(bar_ref.clip_bar_index < 0
         \/ bar_ref.clip_bar_index >= Len(clips[bar_ref.clip_id]))

\* events appended by the bar refs k.. of one track
RECURSIVE TrackEvents(_, _, _, _, _)
TrackEvents(clips, bars, k, channel, ticks_per_beat) ==
    IF k > Len(bars) THEN NoEvents
    ELSE LET bar_ref == bars[k]
             e == IF ~Resolves(clips, bar_ref) THEN NoEvents
                  ELSE BarEvents(clips[bar_ref.clip_id][bar_ref.clip_bar_index + 1],
                                 1, bar_ref.bar_index, channel, ticks_per_beat)
         IN  IF e.err # "" THEN e
             ELSE LET rest == TrackEvents(clips, bars, k + 1, channel, ticks_per_beat)
                  IN  IF rest.err # "" THEN rest
                      ELSE [err |-> "", evs |-> e.evs \o rest.evs]

\* mutant: the events of one tick come out in reverse generation order
SortRank_reversed_ties(evs, i) ==
    Cardinality({j \in 1..Len(evs) :
                    \/ evs[j].tick < evs[i].tick
                    \/ evs[j].tick = evs[i].tick /\ j > i}) + 1

\* the place list.sort(key=tick) gives the i-th event: Python's sort is
\* stable, so among equal keys the earlier element stays first
SortRank(evs, i) ==
    Cardinality({j \in 1..Len(evs) :
                    \/ evs[j].tick < evs[i].tick
                    \/ evs[j].tick = evs[i].tick /\ j < i}) + 1

\* events.sort(key=lambda item: item[0])
SortEvents(evs) ==
    Once(evs, LAMBDA l :
        [r \in 1..Len(l) |-> l[CHOOSE i \in 1..Len(l) : SortRank(l, i) = r]])

\* the delta loop: msg.time = max(0, abs_tick - last_tick)
DeltaMessages(events) ==
    [k \in 1..Len(events) |->
        LET last_tick == IF k = 1 THEN 0 ELSE events[k - 1].tick
        IN  [events[k].msg EXCEPT !.time = Max(0, events[k].tick - last_tick)]]

\* one iteration of "for track_index, track_data in enumerate(tracks)"
RenderTrack(data, track_index) ==
    LET track_data == data.tracks[track_index + 1]
        head == <<MetaMessage("track_name", 0)>>
                \o (IF track_index = 0
                    THEN <<MetaMessage("set_tempo", bpm2tempo(data.tempo_bpm))>>
                    ELSE <<>>)
    IN  Once(TrackEvents(data.clips, track_data.bars, 1, ChannelOf(track_index),
                         data.ticks_per_quarter), LAMBDA gen :
        Once(SortEvents(gen.evs), LAMBDA events :
            [err |-> gen.err, generated |-> gen.evs, events |-> events,
             messages |-> head \o DeltaMessages(events)]))

NotRendered == [ok |-> FALSE, err |-> "not_rendered", tracks |-> <<>>]

\* composition_db_dict_to_midi_bytes(data): the tracks of the file, or the
\* first exception raised
composition_db_dict_to_midi_bytes(data) ==
    Once([i \in 1..Len(data.tracks) |-> RenderTrack(data, i - 1)], LAMBDA out :
        LET failed == {i \in 1..Len(out) : out[i].err # ""}
        IN  IF failed # {}
            THEN [ok |-> FALSE,
                  err |-> out[CHOOSE i \in failed : \A j \in failed : i <= j].err,
                  tracks |-> <<>>]
            ELSE [ok |-> TRUE, err |-> "", tracks |-> out])

DbNote(p, st, du, r) ==
    [absolute_pitch |-> p, start |-> st, duration |-> du, is_rest |-> r]

RenderNotes ==
    {DbNote(60, 0, 2, FALSE), DbNote(64, 0, 2, FALSE), DbNote(60, 1, 1, FALSE),
     DbNote(62, 2, 1, TRUE), DbNote(128, 0, 1, FALSE), DbNote(60, 3, 2, FALSE)}

RenderCurves ==
    {<<>>,
     <<[time |-> 0, value |-> 90], [time |-> 4, value |-> 100]>>,
     <<[time |-> 1, value |-> 60], [time |-> 3, value |-> 130]>>}

RenderTicks == {1, 480}

FixedClip ==
    << [notes |-> <<DbNote(60, 0, 2, FALSE)>>, velocity_curve |-> <<>>],
       [notes |-> <<DbNote(64, 1, 2, FALSE), DbNote(62, 3, 1, TRUE)>>,
        velocity_curve |-> <<[time |-> 0, value |-> 90], [time |-> 4, value |-> 100]>>] >>

BarRefs == [bar_index : {1, 2}, clip_id : {1, 2}, clip_bar_index : {0 - 1, 0, 1, 2}]

TrackDesigns ==
    {[bars |-> <<>>],
     [bars |-> <<[bar_index |-> 1, clip_id |-> 1, clip_bar_index |-> 0]>>],
     [bars |-> <<[bar_index |-> 2, clip_id |-> 1, clip_bar_index |-> 1],
                 [bar_index |-> 1, clip_id |-> 1, clip_bar_index |-> 0]>>]}

RenderIdle ==
    /\ rdata = [ticks_per_quarter |-> 480, tempo_bpm |-> 120,
                clips |-> <<>>, tracks |-> <<>>]
    /\ rout = NotRendered
    /\ rpc = "idle"

\* the documents rendered: one placed bar of drawn notes; one track of drawn
\* bar refs over a fixed two-bar clip; up to MaxTracks copies of one track
InitRender ==
    /\ \/ \E m \in 0..MaxNotes, c \in RenderCurves, t \in RenderTicks, bi \in 0..2 :
            \E ns \in [1..m -> RenderNotes] :
               rdata = [ticks_per_quarter |-> t, tempo_bpm |-> 120,
                        clips |-> (1 :> <<[notes |-> ns, velocity_curve |-> c]>>),
                        tracks |-> <<[bars |-> <<[bar_index |-> bi, clip_id |-> 1,
                                                  clip_bar_index |-> 0]>>]>>]
       \/ \E m \in 0..MaxRefs, t \in RenderTicks :
            \E rs \in [1..m -> BarRefs] :
               rdata = [ticks_per_quarter |-> t, tempo_bpm |-> 120,
                        clips |-> (1 :> FixedClip),
                        tracks |-> <<[bars |-> rs]>>]
       \/ \E nt \in 0..MaxTracks, d \in TrackDesigns :
               rdata = [ticks_per_quarter |-> 480, tempo_bpm |-> 120,
                        clips |-> (1 :> FixedClip),
                        tracks |-> [i \in 1..nt |-> d]]
    /\ rout = NotRendered
    /\ rpc = "start"

\* composition_db_dict_to_midi_bytes(data)
CallRender ==
    /\ rpc = "start"
    /\ rout' = composition_db_dict_to_midi_bytes(rdata)
    /\ rpc' = "rendered"
    /\ UNCHANGED rdata

--------------------------------------------------------------------------
(* DSL parser: dsl_parser.DSLParser (clip library from flat notes, track   *)
(* assembly, bar overrides) and sml_ast.composition_from_smil_dict.  A     *)
(* dict is a function; project["tracks"] is the sequence of its values in  *)
(* insertion order.  Beats count 1/BeatUnit of a beat as in the renderer.  *)

\* clip_inst.get("clip_id") when the key is absent
NoClipId == 0

NoExpression == [velocity_curve |-> <<>>, set |-> FALSE]
BarExpressionModel(velocity_curve) == [velocity_curve |-> velocity_curve, set |-> TRUE]

EmptyDict == [x \in {} |-> <<>>]

\* mutant: the bar index is int(start_beat / beats_per_bar)
NoteBarIndex_trunc(start_beat) == TruncDiv(start_beat, beats_per_bar * BeatUnit)

\* int(start_beat // beats_per_bar)
NoteBarIndex(start_beat) == start_beat \div (beats_per_bar * BeatUnit)

\* note.copy() with the keys start, duration, absolute_pitch set
NoteCopy(note) ==
    [pitch |-> note.pitch, start_beat |-> note.start_beat,
     duration_beats |-> note.duration_beats,
     start |-> note.start_beat % (beats_per_bar * BeatUnit),
     duration |-> note.duration_beats,
     absolute_pitch |-> note.pitch]

\* bars_dict after the first k notes of "for note in notes"
RECURSIVE BucketNotes(_, _)
BucketNotes(notes, k) ==
    IF k = 0 THEN EmptyDict
    ELSE LET bars_dict == BucketNotes(notes, k - 1)
             bar_index == NoteBarIndex(notes[k].start_beat)
         IN  IF bar_index \in DOMAIN bars_dict
             THEN [bars_dict EXCEPT ![bar_index] = Append(@, NoteCopy(notes[k]))]
             ELSE bars_dict @@ (bar_index :> <<NoteCopy(notes[k])>>)

\* sorted(keys)
Sorted(keys) ==
    [j \in 1..Cardinality(keys) |->
        CHOOSE x \in keys : Cardinality({y \in keys : y < x}) = j - 1]

\* DSLParser._notes_to_clipbars(clip_id, notes, beats_per_bar=4.0)
notes_to_clipbars(notes) ==
    LET bars_dict == BucketNotes(notes, Len(notes))
        order == Sorted(DOMAIN bars_dict)
    IN  [j \in 1..Len(order) |->
            [bar_index |-> order[j], notes |-> bars_dict[order[j]],
             expression |-> NoExpression]]

\* DSLParser._parse_clip_library: self.clip_library after the first k clips
RECURSIVE parse_clip_library(_, _)
parse_clip_library(clip_library_def, k) ==
    IF k = 0 THEN EmptyDict
    ELSE LET lib == parse_clip_library(clip_library_def, k - 1)
             clip_data == clip_library_def[k]
             clip == [clip_id |-> clip_data.clip_id,
                      name |-> Get(clip_data, "name"),
                      bars |-> notes_to_clipbars(clip_data.notes)]
         IN  IF clip_data.clip_id \in DOMAIN lib
             THEN [lib EXCEPT ![clip_data.clip_id] = clip]
             ELSE lib @@ (clip_data.clip_id :> clip)

\* the first cb in clip.bars with cb.bar_index == bar_index (0: none)
FindClipBar(bars, bar_index) ==
    LET hits == {j \in 1..Len(bars) : bars[j].bar_index = bar_index}
    IN  IF hits = {} THEN 0 ELSE CHOOSE j \in hits : \A h \in hits : j <= h

\* DSLParser._apply_bar_overrides(clip, bar_overrides): the clip after the
\* first k overrides; the clip object is the one held in the library
RECURSIVE apply_bar_overrides(_, _, _)
apply_bar_overrides(clip, bar_overrides, k) ==
    IF k = 0 THEN clip
    ELSE LET c == apply_bar_overrides(clip, bar_overrides, k - 1)
             override == bar_overrides[k]
             pos == FindClipBar(c.bars, override.bar_index)
         IN  IF pos = 0 THEN c
             ELSE [c EXCEPT !.bars[pos].expression =
                                BarExpressionModel(override.velocity_curve)]

\* range(length_bars) as the positions 1..length_bars
Range(length_bars) == 1..Max(0, length_bars)

\* DSLParser._parse_track, the loop over clip instances from the k-th on:
\* the library as left by the overrides, the refs, or the ValueError
RECURSIVE ParseClipInstances(_, _, _, _)
ParseClipInstances(lib, clips, k, track_bars) ==
    IF k > Len(clips) THEN [err |-> "", lib |-> lib, bars |-> track_bars]
    ELSE LET clip_instance == clips[k]
             clip_id == clip_instance.clip_id
         IN  IF clip_id \notin DOMAIN lib
             THEN [err |-> "ValueError", lib |-> lib, bars |-> <<>>]
             ELSE LET lib2 == IF clip_instance.bar_overrides # <<>>
                              THEN [lib EXCEPT ![clip_id] =
                                       apply_bar_overrides(@, clip_instance.bar_overrides,
                                                           Len(clip_instance.bar_overrides))]
                              ELSE lib
                      clip == lib2[clip_id]
                      refs == [i \in Range(clip_instance.length_bars) |->
                                 [bar_index |-> clip_instance.start_bar + (i - 1),
                                  clip_id |-> clip_id,
                                  clip_bar_index |->
                                      IF clip.bars # <<>>
                                      THEN (i - 1) % Len(clip.bars) ELSE 0]]
                  IN  ParseClipInstances(lib2, clips, k + 1, track_bars \o refs)

parse_track(lib, track_data) == ParseClipInstances(lib, track_data.clips, 1, <<>>)

\* composition_from_smil_dict, the loop over clip instances from the k-th on
RECURSIVE SmilClipInstances(_, _, _)
SmilClipInstances(clips_def, k, bar_refs) ==
    IF k > Len(clips_def) THEN [err |-> "", bars |-> bar_refs]
    ELSE LET clip_inst == clips_def[k]
         IN  IF clip_inst.clip_id = NoClipId
             THEN [err |-> "ValueError", bars |-> <<>>]
             ELSE LET refs == [i \in Range(clip_inst.length_bars) |->
                                 [bar_index |-> clip_inst.start_bar + (i - 1),
                                  clip_id |-> clip_inst.clip_id,
                                  clip_bar_index |-> i - 1]]
                  IN  SmilClipInstances(clips_def, k + 1, bar_refs \o refs)

NoComposition == [ok |-> FALSE, err |-> "none", tracks |-> <<>>]

\* composition_from_smil_dict(d): the tracks of the Composition, or the
\* first exception
composition_from_smil_dict(project_def) ==
    LET out == [t \in 1..Len(project_def.tracks) |->
                   SmilClipInstances(project_def.tracks[t].clips, 1, <<>>)]
        failed == {t \in 1..Len(out) : out[t].err # ""}
    IN  IF failed # {}
        THEN [ok |-> FALSE, err |-> "ValueError", tracks |-> <<>>]
        ELSE [ok |-> TRUE, err |-> "",
              tracks |-> [t \in 1..Len(out) |-> [bars |-> out[t].bars]]]

FlatNote(p, st, du) == [pitch |-> p, start_beat |-> st, duration_beats |-> du]

FlatNotes == [pitch : {60, 62}, start_beat : {0 - 1, 0, 7, 8, 17}, duration_beats : {1, 9}]

OverrideCurves ==
    {<<[time |-> 0, value |-> 70], [time |-> 4, value |-> 110]>>,
     <<[time |-> 0, value |-> 40]>>}

Override(bar_index, velocity_curve) ==
    [bar_index |-> bar_index, velocity_curve |-> velocity_curve]

BarOverrides ==
    {<<>>} \cup {<<Override(0, c)>> : c \in OverrideCurves}
           \cup {<<Override(5, <<[time |-> 0, value |-> 40]>>)>>}

\* a two-bar clip, a clip without notes
FixedLibrary ==
    << [clip_id |-> 1, notes |-> <<FlatNote(60, 0, 2), FlatNote(64, 8, 2)>>],
       [clip_id |-> 5, notes |-> <<>>] >>

ClipInstances ==
    [clip_id : {NoClipId, 1, 5, 9}, start_bar : {1, 3}, length_bars : 0..MaxLength,
     bar_overrides : BarOverrides]

SecondInstances ==
    [clip_id : {1, 9}, start_bar : {5}, length_bars : {2}, bar_overrides : BarOverrides]

ParserIdle ==
    /\ project = [clip_library |-> <<>>, tracks |-> <<>>]
    /\ clip_library = EmptyDict /\ lib0 = EmptyDict
    /\ ptracks = <<>> /\ presult = NoComposition /\ smil = NoComposition
    /\ parse_pc = "idle"

\* the projects parsed: one clip of drawn flat notes placed once; one or
\* two drawn placements of the fixed library, in one track or in two
InitParser ==
    /\ \/ \E m \in 0..MaxNotes : \E ns \in [1..m -> FlatNotes] :
            project = [clip_library |-> <<[clip_id |-> 1, notes |-> ns]>>,
                       tracks |-> <<[clips |-> <<[clip_id |-> 1, start_bar |-> 1,
                                                  length_bars |-> 2,
                                                  bar_overrides |-> <<>>]>>]>>]
       \/ \E p1 \in ClipInstances :
            project = [clip_library |-> FixedLibrary,
                       tracks |-> <<[clips |-> <<p1>>]>>]
       \/ \E p1 \in ClipInstances, p2 \in SecondInstances :
            \/ project = [clip_library |-> FixedLibrary,
                          tracks |-> <<[clips |-> <<p1, p2>>]>>]
            \/ project = [clip_library |-> FixedLibrary,
                          tracks |-> <<[clips |-> <<p1>>], [clips |-> <<p2>>]>>]
    /\ clip_library = EmptyDict /\ lib0 = EmptyDict
    /\ ptracks = <<>> /\ presult = NoComposition /\ smil = NoComposition
    /\ parse_pc = "start"

\* parse_project: self._parse_clip_library(project["clip_library"])
ParseClipLibrary ==
    /\ parse_pc = "start"
    /\ clip_library' = parse_clip_library(project.clip_library, Len(project.clip_library))
    /\ lib0' = clip_library'
    /\ parse_pc' = "tracks"
    /\ UNCHANGED <<project, ptracks, presult, smil>>

\* parse_project: one iteration of the loop calling self._parse_track
ParseTrack ==
    /\ parse_pc = "tracks"
    /\ Len(ptracks) < Len(project.tracks)
    /\ LET r == parse_track(clip_library, project.tracks[Len(ptracks) + 1])
       IN  /\ clip_library' = r.lib
           /\ IF r.err # ""
              THEN /\ presult' = [ok |-> FALSE, err |-> r.err, tracks |-> <<>>]
                   /\ parse_pc' = "done"
                   /\ UNCHANGED ptracks
              ELSE /\ ptracks' = Append(ptracks, [bars |-> r.bars])
                   /\ UNCHANGED <<presult, parse_pc>>
    /\ UNCHANGED <<project, lib0, smil>>

\* parse_project: the Composition is built from the parsed tracks
BuildComposition ==
    /\ parse_pc = "tracks"
    /\ Len(ptracks) = Len(project.tracks)
    /\ presult' = [ok |-> TRUE, err |-> "", tracks |-> ptracks]
    /\ parse_pc' = "done"
    /\ UNCHANGED <<project, clip_library, lib0, ptracks, smil>>

\* composition_from_smil_dict on the same project dict
CallCompositionFromSmil ==
    /\ parse_pc = "done"
    /\ smil' = composition_from_smil_dict(project)
    /\ parse_pc' = "both"
    /\ UNCHANGED <<project, clip_library, lib0, ptracks, presult>>

--------------------------------------------------------------------------
(* Clip conversion: sml_ast.clip_from_smil_dict followed by                *)
(* Clip.to_spec_clip, as OSCFacade.sml_to_dsl_clip calls them.  A raw bar  *)
(* is its list of items; bar_index, name and track_name pass through.      *)

ClipError(msg) == [ok |-> FALSE, bars |-> <<>>, err |-> msg]

\* mutant: a bar that fails to build is left out of the clip
clip_from_smil_dict_skipping(d) ==
    LET built == [i \in 1..Len(d.bars) |->
                     smil_bar_from_dict(d.bars[i], DEFAULT_UNITS_PER_BAR)]
    IN  [ok |-> TRUE, bars |-> SelectSeq(built, LAMBDA b : b.ok), err |-> ""]

\* clip_from_smil_dict(d): the loop stops at the first bar that raises
clip_from_smil_dict(d) ==
    LET built == [i \in 1..Len(d.bars) |->
                     smil_bar_from_dict(d.bars[i], DEFAULT_UNITS_PER_BAR)]
        failed == {i \in 1..Len(built) : ~built[i].ok}
    IN  IF failed # {}
        THEN ClipError(built[CHOOSE i \in failed : \A j \in failed : i <= j].err)
        ELSE [ok |-> TRUE, bars |-> built, err |-> ""]

\* Clip.validate_and_layout(): every bar up to and including the first one
\* that overflows has been laid out at DEFAULT_UNITS_PER_BAR
validate_and_layout(clip) ==
    LET laid == [i \in 1..Len(clip.bars) |->
                    layout([clip.bars[i] EXCEPT !.units_per_bar = DEFAULT_UNITS_PER_BAR])]
        failed == {i \in 1..Len(laid) : laid[i].raised}
        first == IF failed = {} THEN Len(laid)
                 ELSE CHOOSE i \in failed : \A j \in failed : i <= j
    IN  [clip |-> [clip EXCEPT !.bars = [i \in 1..Len(laid) |->
                                            IF i <= first THEN laid[i].bar
                                            ELSE clip.bars[i]]],
         raised |-> failed # {}]

\* ClipBar.to_spec_clipbar(clip_id): layout(), then the notes list
to_spec_clipbar(b) ==
    LET r == layout(b)
    IN  [raised |-> r.raised, notes |-> IF r.raised THEN <<>> ELSE SpecNotes(r.bar)]

\* Clip.to_spec_clip(): the clip as the call leaves it, and the dict
\* returned or the exception raised
to_spec_clip(clip) ==
    LET v == validate_and_layout(clip)
        out == [i \in 1..Len(v.clip.bars) |-> to_spec_clipbar(v.clip.bars[i])]
    IN  IF v.raised \/ \E i \in 1..Len(out) : out[i].raised
        THEN [clip |-> v.clip, dict |-> ClipError("Bar overflow")]
        ELSE [clip |-> v.clip,
              dict |-> [ok |-> TRUE,
                        bars |-> [i \in 1..Len(out) |-> [notes |-> out[i].notes]],
                        err |-> ""]]

NoClip == ClipError("none")

RawItem(k, p, w) == [kind |-> k, note |-> p, duration |-> Word(w)]

\* bars of an SML clip: three that convert; an invalid pitch, an unknown
\* duration token, an unknown item kind, an overflow of the 32-unit bar
ClipRawBars ==
    { <<>>,
      <<RawItem("note", <<"C", "4">>, "quarter"), RawItem("rest", <<"C", "4">>, "quarter")>>,
      <<RawItem("note", <<"C", "4">>, "whole")>>,
      <<RawItem("note", <<"C", "4">>, "quarter"), RawItem("note", <<"H", "4">>, "quarter")>>,
      <<RawItem("rest", <<"C", "4">>, "none")>>,
      <<RawItem("chord", <<"C", "4">>, "quarter")>>,
      <<RawItem("note", <<"C", "4">>, "whole"), RawItem("rest", <<"C", "4">>, "thirty_second")>> }

ClipIdle ==
    /\ sml_clip = [bars |-> <<>>] /\ clip_ast = NoClip /\ dsl_clip = NoClip
    /\ clip_pc = "idle"

InitClip ==
    /\ \E m \in 0..MaxBars : \E bs \in [1..m -> ClipRawBars] : sml_clip = [bars |-> bs]
    /\ clip_ast = NoClip /\ dsl_clip = NoClip
    /\ clip_pc = "start"

\* sml_to_dsl_clip: clip_ast = clip_from_smil_dict(sml_clip)
CallClipFromSmilDict ==
    /\ clip_pc = "start"
    /\ clip_ast' = clip_from_smil_dict(sml_clip)
    /\ IF clip_ast'.ok
       THEN clip_pc' = "built" /\ UNCHANGED dsl_clip
       ELSE clip_pc' = "raised" /\ dsl_clip' = ClipError(clip_ast'.err)
    /\ UNCHANGED sml_clip

\* sml_to_dsl_clip: return clip_ast.to_spec_clip()
CallClipToSpecClip ==
    /\ clip_pc = "built"
    /\ LET r == to_spec_clip(clip_ast)
       IN  /\ clip_ast' = r.clip
           /\ dsl_clip' = r.dict
           /\ clip_pc' = IF r.dict.ok THEN "returned" ELSE "raised"
    /\ UNCHANGED sml_clip

--------------------------------------------------------------------------
(* Live player: MidiClipPlayer._schedule_events and play_dsl_clip.  Beats  *)
(* count 1/BeatUnit of a beat; scheduled times count 1/(BeatUnit * steps)  *)
(* of a beat (beat_duration is a common factor), which makes the sampling  *)
(* times start_beat + (i/steps) * duration_beats integers.  An event is    *)
(* [tick, msg] as in the renderer, tick being the scheduled time.  The     *)
(* clock is kept relative to the anchor start_time of the running pass.    *)

steps == 10

\* param1 of a pitch_bend event (Python None); no time.sleep call
NoParam == 0 - 1
NoSleep == 0 - 1

LiveTime(beat_units) == beat_units * steps

LiveEvent(time, kind, param1, param2) ==
    [tick |-> time, msg |-> [kind |-> kind, param1 |-> param1, param2 |-> param2]]

\* the control points of a curve with their times in scheduled-time units
FineCurve(c) == [k \in 1..Len(c) |-> [time |-> LiveTime(c[k].time), value |-> c[k].value]]

\* the events of bar["cc"] and of bar["pedal_events"]
ControllerEvents(bar_start_time, evs) ==
    [k \in 1..Len(evs) |->
        LiveEvent(bar_start_time + LiveTime(evs[k].time), "cc",
                  evs[k].controller, evs[k].value)]

\* mutant: the sampling loop also samples the end of the note
SampleEvents_inclusive(c, note, bar_start_time, kind, param1) ==
    LET t_beat(i) == LiveTime(note.start_beat) + i * note.duration_beats
    IN  IF c = <<>> THEN NoEvents
        ELSE [err |-> "",
              evs |-> [k \in 1..(steps + 1) |->
                          LiveEvent(bar_start_time + t_beat(k - 1), kind, param1,
                                    interpolate_curve_live(FineCurve(c), t_beat(k - 1)).value)]]

\* the sampling loop "for i in range(steps)" over a curve during a note
SampleEvents(c, note, bar_start_time, kind, param1) ==
    LET t_beat(i) == LiveTime(note.start_beat) + i * note.duration_beats
    IN  IF c = <<>> THEN NoEvents
        ELSE Once([i \in 0..(steps - 1) |-> interpolate_curve_live(FineCurve(c), t_beat(i))],
                  LAMBDA value :
             LET raising == {i \in 0..(steps - 1) : value[i].kind \notin {"value", "none"}}
                 kept == {i \in 0..(steps - 1) : value[i].kind = "value"}
                 nth(k) == CHOOSE i \in kept : Cardinality({j \in kept : j < i}) = k - 1
             IN  IF raising # {}
                 THEN EventsError(value[CHOOSE i \in raising : \A j \in raising : i <= j].kind)
                 ELSE [err |-> "",
                       evs |-> [k \in 1..Cardinality(kept) |->
                                   Once(nth(k), LAMBDA i :
                                       LiveEvent(bar_start_time + t_beat(i), kind, param1,
                                                 value[i].value))]])

\* the body of "for note in bar.get('notes', [])" of _schedule_events
LiveNoteEvents(note, b, bar_start_time) ==
    IF note.is_rest THEN NoEvents
    ELSE LET start_time == bar_start_time + LiveTime(note.start_beat)
             duration == LiveTime(note.duration_beats)
         IN  Once(interpolate_curve_live(b.velocity_curve, note.start_beat), LAMBDA v :
             Once(SampleEvents(b.pitch_bend_curve, note, bar_start_time,
                               "pitch_bend", NoParam), LAMBDA pb :
             Once(SampleEvents(b.aftertouch_curve, note, bar_start_time,
                               "aftertouch", note.pitch), LAMBDA at :
                 LET velocity == IF v = CurveNone THEN 100 ELSE v.value
                 IN  IF v.kind \notin {"value", "none"} THEN EventsError(v.kind)
                     ELSE IF pb.err # "" THEN pb
                     ELSE IF at.err # "" THEN at
                     ELSE [err |-> "",
                           evs |-> << LiveEvent(start_time, "note_on", note.pitch, velocity),
                                      LiveEvent(start_time + duration, "note_off",
                                                note.pitch, 0) >>
                                   \o pb.evs \o at.evs])))

\* events appended by the notes k.. of one bar
RECURSIVE LiveNotesEvents(_, _, _)
LiveNotesEvents(b, k, bar_start_time) ==
    IF k > Len(b.notes) THEN NoEvents
    ELSE Once(LiveNoteEvents(b.notes[k], b, bar_start_time), LAMBDA e :
             IF e.err # "" THEN e
             ELSE Once(LiveNotesEvents(b, k + 1, bar_start_time), LAMBDA rest :
                      IF rest.err # "" THEN rest
                      ELSE [err |-> "", evs |-> e.evs \o rest.evs]))

\* events appended by the bars k.. of the clip
RECURSIVE LiveBarsEvents(_, _)
LiveBarsEvents(bars, k) ==
    IF k > Len(bars) THEN NoEvents
    ELSE LET b == bars[k]
             bar_start_time == LiveTime(b.bar_index * beats_per_bar * BeatUnit)
         IN  Once(LiveNotesEvents(b, 1, bar_start_time), LAMBDA ns :
                 IF ns.err # "" THEN ns
                 ELSE Once(LiveBarsEvents(bars, k + 1), LAMBDA rest :
                          IF rest.err # "" THEN rest
                          ELSE [err |-> "",
                                evs |-> ControllerEvents(bar_start_time, b.cc)
                                        \o ControllerEvents(bar_start_time, b.pedal_events)
                                        \o ns.evs \o rest.evs]))

\* MidiClipPlayer._schedule_events(clip): the sorted schedule
schedule_events(clip) ==
    Once(LiveBarsEvents(clip.bars, 1), LAMBDA gen :
        [err |-> gen.err, evs |-> SortEvents(gen.evs)])

\* mutant: a late event is slept for by the amount it is late
SleepArg_abs(delay) == IF delay > 0 THEN delay ELSE 0 - delay

\* "if delay > 0: time.sleep(delay)": the argument of the sleep call
SleepArg(delay) == IF delay > 0 THEN delay ELSE NoSleep

\* mutant: the pass loop ends when looping is enabled
ShouldBreak_inverted(loop_flag) == loop_flag

\* "if not self.loop: break"
ShouldBreak(loop_flag) == ~loop_flag

LiveNote(p, st, du, r) ==
    [pitch |-> p, start_beat |-> st, duration_beats |-> du, is_rest |-> r]

LiveBar(bi, ns, vc, pb, at, ccs, peds) ==
    [bar_index |-> bi, notes |-> ns, velocity_curve |-> vc, pitch_bend_curve |-> pb,
     aftertouch_curve |-> at, cc |-> ccs, pedal_events |-> peds]

PlainBar == LiveBar(0, <<LiveNote(60, 0, 2, FALSE)>>, <<>>, <<>>, <<>>, <<>>, <<>>)

ChordBar ==
    LiveBar(0, <<LiveNote(60, 0, 2, FALSE), LiveNote(64, 0, 2, FALSE),
                 LiveNote(62, 2, 2, TRUE)>>,
            <<[time |-> 0, value |-> 90], [time |-> 4, value |-> 100]>>, <<>>, <<>>,
            <<[time |-> 2, controller |-> 1, value |-> 64]>>,
            <<[time |-> 0, controller |-> 64, value |-> 127]>>)

BendBar ==
    LiveBar(1, <<LiveNote(67, 1, 1, FALSE)>>, <<>>,
            <<[time |-> 0, value |-> 0], [time |-> 2, value |-> 100]>>,
            <<[time |-> 1, value |-> 30]>>, <<>>, <<>>)

LiveClips ==
    {[bars |-> bs] : bs \in {<<>>, <<PlainBar>>, <<ChordBar>>, <<BendBar>>,
                             <<BendBar, ChordBar>>}}

LastTick(evs) == IF evs = <<>> THEN 0 ELSE evs[Len(evs)].tick

PlayIdle ==
    /\ live_clip = [bars |-> <<>>] /\ loop = FALSE /\ sched = <<>> /\ walked = 0
    /\ elapsed = 0 /\ now_read = 0 /\ slept = NoSleep /\ dispatched = <<>>
    /\ pass1 = <<>> /\ passes = 0 /\ play_pc = "idle"

\* a player constructed with loop = False or True, about to play a clip
InitPlay ==
    /\ live_clip \in LiveClips /\ loop \in BOOLEAN
    /\ sched = <<>> /\ walked = 0
    /\ elapsed = 0 /\ now_read = 0 /\ slept = NoSleep /\ dispatched = <<>>
    /\ pass1 = <<>> /\ passes = 0 /\ play_pc = "loop_top"

\* top of "while True": events = self._schedule_events(clip);
\* start_time = time.time()
ScheduleEvents ==
    /\ play_pc = "loop_top"
    /\ \E r \in {schedule_events(live_clip)} :
          IF r.err # ""
          THEN /\ play_pc' = "raised"
               /\ UNCHANGED <<sched, walked, elapsed, dispatched>>
          ELSE /\ sched' = r.evs
               /\ walked' = 0 /\ elapsed' = 0 /\ dispatched' = <<>>
               /\ play_pc' = "next"
    /\ UNCHANGED <<live_clip, loop, now_read, slept, pass1, passes>>

\* now = time.time(); delay = (start_time + event_time) - now;
\* if delay > 0: time.sleep(delay).  The clock has advanced by lag since it
\* was last looked at; the drawn lags stop MaxLag after the last event.
ReadClockAndSleep ==
    /\ play_pc = "next" /\ walked < Len(sched)
    /\ \E lag \in {0, 1, MaxLag} :
          /\ lag = 0 \/ elapsed + lag <= LastTick(sched) + MaxLag
          /\ now_read' = elapsed + lag
          /\ slept' = SleepArg(sched[walked + 1].tick - now_read')
          /\ elapsed' = IF slept' = NoSleep THEN now_read' ELSE now_read' + slept'
    /\ play_pc' = "send"
    /\ UNCHANGED <<live_clip, loop, sched, walked, dispatched, pass1, passes>>

\* self._send_message(kind, param1, param2)
SendMessage ==
    /\ play_pc = "send"
    /\ dispatched' = Append(dispatched, sched[walked + 1])
    /\ walked' = walked + 1
    /\ play_pc' = "next"
    /\ UNCHANGED <<live_clip, loop, sched, elapsed, now_read, slept, pass1, passes>>

\* the for loop is exhausted: "if not self.loop: break".  passes counts the
\* completed passes up to MaxPasses; pass1 keeps what the first one sent.
EndPass ==
    /\ play_pc = "next" /\ walked = Len(sched)
    /\ passes' = IF passes < MaxPasses THEN passes + 1 ELSE passes
    /\ pass1' = IF passes = 0 THEN dispatched ELSE pass1
    /\ play_pc' = IF ShouldBreak(loop) THEN "returned" ELSE "loop_top"
    /\ UNCHANGED <<live_clip, loop, sched, walked, elapsed, now_read, slept, dispatched>>

--------------------------------------------------------------------------
(* Live session: facade.play_clip / play_clip_from_sml call the blocking     *)
(* midi_player.play_clip, which runs play_dsl_clip to its end.  A           *)
(* cancellation request comes from outside the player; play_dsl_clip reads  *)
(* no flag and has no suspension point at which a request could be          *)
(* delivered.                                                               *)

SessIdle == cancel_requested = FALSE /\ sent_after_cancel = 0

\* the caller asks for the running session to be cancelled
RequestCancel ==
    /\ play_pc \in {"loop_top", "next", "send"}
    /\ ~cancel_requested
    /\ cancel_requested' = TRUE
    /\ UNCHANGED <<playVars, sent_after_cancel>>

\* a step of play_dsl_clip during a session: the request is not looked at
SessionStep ==
    /\ ScheduleEvents \/ ReadClockAndSleep \/ EndPass
    /\ UNCHANGED sessVars

\* self._send_message(...) during a session
SessionSend ==
    /\ SendMessage
    /\ sent_after_cancel' = IF cancel_requested /\ sent_after_cancel < MaxLate
                            THEN sent_after_cancel + 1 ELSE sent_after_cancel
    /\ UNCHANGED cancel_requested

--------------------------------------------------------------------------
(* Batch and live side by side: the same bar (bar index, notes, velocity    *)
(* curve) is given to composition_db_dict_to_midi_bytes as the one placed   *)
(* bar of a track and to MidiClipPlayer._schedule_events as the one bar of  *)
(* a clip.  The renderer reads absolute_pitch / start / duration, the       *)
(* scheduler reads pitch / start_beat / duration_beats.                     *)

CompareTicks == 480

\* the notes both sides accept as MIDI notes
CompareNotes == {x \in RenderNotes : DataByteOk(x.absolute_pitch)}

BatchDoc(bi, ns, c) ==
    [ticks_per_quarter |-> CompareTicks, tempo_bpm |-> 120,
     clips |-> (1 :> <<[notes |-> ns, velocity_curve |-> c]>>),
     tracks |-> <<[bars |-> <<[bar_index |-> bi, clip_id |-> 1,
                               clip_bar_index |-> 0]>>]>>]

LiveDoc(bi, ns, c) ==
    [bars |-> <<LiveBar(bi,
                        [k \in 1..Len(ns) |->
                            LiveNote(ns[k].absolute_pitch, ns[k].start, ns[k].duration,
                                     ns[k].is_rest)],
                        c, <<>>, <<>>, <<>>, <<>>)>>]

InitCompare ==
    /\ \E m \in 0..MaxNotes, c \in RenderCurves, bi \in 0..2 :
          \E ns \in [1..m -> CompareNotes] :
             /\ rdata = BatchDoc(bi, ns, c)
             /\ live_clip = LiveDoc(bi, ns, c)
    /\ rout = NotRendered /\ rpc = "start"
    /\ loop = FALSE /\ sched = <<>> /\ walked = 0
    /\ elapsed = 0 /\ now_read = 0 /\ slept = NoSleep /\ dispatched = <<>>
    /\ pass1 = <<>> /\ passes = 0 /\ play_pc = "start"

\* events = self._schedule_events(clip), on its own
CallScheduleEvents ==
    /\ play_pc = "start"
    /\ \E r \in {schedule_events(live_clip)} :
          /\ sched' = r.evs
          /\ play_pc' = IF r.err # "" THEN "raised" ELSE "scheduled"
    /\ UNCHANGED <<live_clip, loop, walked, elapsed, now_read, slept, dispatched,
                   pass1, passes>>

--------------------------------------------------------------------------
(* The scheduler on its own, over drawn one-bar clips with and without      *)
(* pitch-bend and aftertouch curves.                                        *)

ScheduleNotes ==
    {LiveNote(60, 0, 2, FALSE), LiveNote(64, 1, 1, FALSE), LiveNote(62, 2, 2, TRUE),
     LiveNote(67, 3, 3, FALSE)}

BendCurves == {<<>>, <<[time |-> 0, value |-> 0], [time |-> 2, value |-> 100]>>}

TouchCurves == {<<>>, <<[time |-> 1, value |-> 30]>>}

ControllerLists == {<<>>, <<[time |-> 2, controller |-> 1, value |-> 64]>>}

InitSchedule ==
    /\ \E m \in 0..MaxNotes, pb \in BendCurves, at \in TouchCurves,
          ccs \in ControllerLists, bi \in 0..1 :
          \E ns \in [1..m -> ScheduleNotes] :
             live_clip = [bars |-> <<LiveBar(bi, ns, <<>>, pb, at, ccs, <<>>)>>]
    /\ loop = FALSE /\ sched = <<>> /\ walked = 0
    /\ elapsed = 0 /\ now_read = 0 /\ slept = NoSleep /\ dispatched = <<>>
    /\ pass1 = <<>> /\ passes = 0 /\ play_pc = "start"

--------------------------------------------------------------------------
(* Database and ClipService.  The database is its tables (rows in insertion *)
(* order) and the autoincrement counter of each table.  A session works on  *)
(* its own copy of the tables; leaving the session publishes the copy       *)
(* (commit) or drops it (rollback).  Names are numbered.                    *)

TableNames == {"clips", "clip_bars", "notes", "compositions", "tracks", "track_bars"}

\* the nullable=False columns of schema.py that the services fill
NotNullColumns ==
    [clips        |-> {"name"},
     clip_bars    |-> {"clip_id", "bar_index"},
     notes        |-> {"clip_bar_id", "start_beat", "duration_beats"},
     compositions |-> {"name"},
     tracks       |-> {"composition_id", "name"},
     track_bars   |-> {"track_id", "bar_index", "clip_id", "clip_bar_index"}]

EmptyDb ==
    [clips |-> <<>>, clip_bars |-> <<>>, notes |-> <<>>,
     compositions |-> <<>>, tracks |-> <<>>, track_bars |-> <<>>,
     seq |-> [t \in TableNames |-> 0]]

\* ForeignKey("clips.id") of track_bars, where the backend enforces it
ForeignKeyOk(w, table, data, enforce) ==
    (enforce /\ table = "track_bars")
        => \E i \in 1..Len(w.clips) : w.clips[i].id = data.clip_id

\* BaseRepository.insert in a session whose tables are w: the tables after
\* the INSERT and inserted_primary_key[0], or the error of the statement
insert(w, table, data, fails, enforce) ==
    IF fails
    THEN [db |-> w, id |-> 0, err |-> "OperationalError"]
    ELSE IF (\E c \in NotNullColumns[table] : data[c] = NoneValue)
            \/ ~ForeignKeyOk(w, table, data, enforce)
    THEN [db |-> w, id |-> 0, err |-> "IntegrityError"]
    ELSE Once(w.seq[table] + 1, LAMBDA id :
         [db  |-> [w EXCEPT ![table] = Append(@, ("id" :> id) @@ data),
                            !.seq = [@ EXCEPT ![table] = id]],
          id  |-> id,
          err |-> ""])

\* Database.session on leaving the block: commit when it completed, rollback
\* and re-raise when it raised.  A rolled back INSERT may or may not have
\* consumed its autoincrement value (keeps).
session_committing_on_error(raised, before, working, keeps) ==
    working

session(raised, before, working, keeps) ==
    IF raised
    THEN [before EXCEPT !.seq = IF keeps THEN working.seq ELSE before.seq]
    ELSE working

\* the row create_clip_from_dsl inserts for one note of a bar
NoteRow(note_data, clip_bar_id) ==
    [clip_bar_id    |-> clip_bar_id,
     pitch          |-> Get(note_data, "absolute_pitch"),
     start_beat     |-> Get(note_data, "start"),
     duration_beats |-> Get(note_data, "duration"),
     is_rest        |-> IF "is_rest" \in DOMAIN note_data THEN note_data.is_rest
                        ELSE FALSE]

RECURSIVE InsertNotes(_, _, _, _, _)
\* "for note_data in bar_data.get('notes', [])" from the k-th note on;
\* acc is the session's tables, the INSERTs made and the error raised
InsertNotes(acc, notes, k, clip_bar_id, fail_at) ==
    IF k > Len(notes) \/ acc.err # "" THEN acc
    ELSE Once(insert(acc.db, "notes", NoteRow(notes[k], clip_bar_id),
                     acc.made + 1 = fail_at, FALSE), LAMBDA r :
         InsertNotes([db |-> r.db, made |-> acc.made + 1, err |-> r.err],
                     notes, k + 1, clip_bar_id, fail_at))

RECURSIVE InsertBars(_, _, _, _, _)
\* "for bar_data in dsl_clip.get('bars', [])" from the k-th bar on
InsertBars(acc, bars, k, clip_id, fail_at) ==
    IF k > Len(bars) \/ acc.err # "" THEN acc
    ELSE IF "bar_index" \notin DOMAIN bars[k]
    THEN [acc EXCEPT !.err = "KeyError"]
    ELSE Once(insert(acc.db, "clip_bars",
                     [clip_id        |-> clip_id,
                      bar_index      |-> bars[k].bar_index,
                      \* a missing curve and an empty one read the same
                      velocity_curve |-> IF "velocity_curve" \in DOMAIN bars[k]
                                         THEN bars[k].velocity_curve ELSE <<>>],
                     acc.made + 1 = fail_at, FALSE), LAMBDA r :
         IF r.err # ""
         THEN [db |-> r.db, made |-> acc.made + 1, err |-> r.err]
         ELSE Once(InsertNotes([db |-> r.db, made |-> acc.made + 1, err |-> ""],
                               IF "notes" \in DOMAIN bars[k] THEN bars[k].notes
                               ELSE <<>>,
                               1, r.id, fail_at), LAMBDA a :
              InsertBars(a, bars, k + 1, clip_id, fail_at)))

\* the block of create_clip_from_dsl inside "async with self.db.session()"
CreateClipBlock(before, clip, fail_at) ==
    IF "name" \notin DOMAIN clip
    THEN [db |-> before, made |-> 0, err |-> "KeyError", id |-> 0]
    ELSE Once(insert(before, "clips",
                     [name       |-> clip.name,
                      track_name |-> Get(clip, "track_name")],
                     fail_at = 1, FALSE), LAMBDA r :
         IF r.err # ""
         THEN [db |-> r.db, made |-> 1, err |-> r.err, id |-> 0]
         ELSE Once(InsertBars([db |-> r.db, made |-> 1, err |-> ""],
                              IF "bars" \in DOMAIN clip THEN clip.bars ELSE <<>>,
                              1, r.id, fail_at), LAMBDA a :
              [db |-> a.db, made |-> a.made,
               \* the commit is the statement after the last INSERT
               err |-> IF a.err = "" /\ fail_at = a.made + 1
                       THEN "OperationalError" ELSE a.err,
               id |-> r.id]))

\* ClipService.create_clip_from_dsl: the database after the call and the
\* clip id returned, or the exception that left the session
create_clip_from_dsl(before, clip, fail_at, keeps) ==
    Once(CreateClipBlock(before, clip, fail_at), LAMBDA b :
         [db  |-> session(b.err # "", before, b.db, keeps),
          err |-> b.err,
          made |-> b.made,
          ret |-> IF b.err = "" THEN b.id ELSE 0])

\* "ORDER BY key" of a SELECT over rows held in insertion order
RowRank(rows, key, i) ==
    Cardinality({j \in 1..Len(rows) :
                    \/ rows[j][key] < rows[i][key]
                    \/ (rows[j][key] = rows[i][key] /\ j < i)}) + 1

OrderBy(rows, key) ==
    [r \in 1..Len(rows) |->
        rows[CHOOSE i \in 1..Len(rows) : RowRank(rows, key, i) = r]]

\* the rows of a table whose column equals value, in insertion order
FindBy(rows, column, value) ==
    SelectSeq(rows, LAMBDA row : row[column] = value)

\* ClipService.get_clip_with_bars_and_notes: None for an unknown id, else the
\* clip with its bars ordered by bar_index, each with its notes ordered by
\* start_beat
get_clip_with_bars_and_notes(d, clip_id) ==
    IF FindBy(d.clips, "id", clip_id) = <<>>
    THEN [found |-> FALSE]
    ELSE Once(OrderBy(FindBy(d.clip_bars, "clip_id", clip_id), "bar_index"),
              LAMBDA found_bars :
         [found |-> TRUE,
          id    |-> clip_id,
          name  |-> FindBy(d.clips, "id", clip_id)[1].name,
          bars  |-> [k \in 1..Len(found_bars) |->
                        [id        |-> found_bars[k].id,
                         clip_id   |-> found_bars[k].clip_id,
                         bar_index |-> found_bars[k].bar_index,
                         velocity_curve |-> found_bars[k].velocity_curve,
                         notes |-> OrderBy(FindBy(d.notes, "clip_bar_id",
                                                  found_bars[k].id),
                                           "start_beat")]]])

\* ---- scenario: one create_clip_from_dsl call on a database, then a fetch ----

MaxInserts == 7

\* note dicts: a note and a rest in the database format, and a flat DSL note
\* (pitch / start_beat / duration_beats), which has none of the keys read
ServiceNotes ==
    {[absolute_pitch |-> 60, start |-> 0, duration |-> 2, is_rest |-> FALSE],
     [absolute_pitch |-> NoneValue, start |-> 2, duration |-> 2, is_rest |-> TRUE],
     [pitch |-> 62, start_beat |-> 0, duration_beats |-> 2]}

ServiceBars ==
    {[bar_index |-> bi, notes |-> ns] :
        bi \in 0..1, ns \in SeqsUpTo(ServiceNotes, 2)}
    \cup {[bar_index |-> 0], [notes |-> <<>>]}

ServiceClips ==
    {[name |-> nm, bars |-> bs] :
        nm \in {1, NoneValue},
        bs \in {<<>>} \cup {<<b>> : b \in ServiceBars}
               \cup {<<b1, b2>> : b1 \in {[bar_index |-> 0, notes |-> ns] :
                                            ns \in SeqsUpTo(ServiceNotes, 1)},
                                  b2 \in ServiceBars}}
    \cup {[bars |-> <<>>]}

\* a database that already holds one clip with a bar and a note
PriorDb ==
    [EmptyDb EXCEPT
        !.clips = <<[id |-> 1, name |-> 9, track_name |-> NoneValue]>>,
        !.clip_bars = <<[id |-> 1, clip_id |-> 1, bar_index |-> 0,
                         velocity_curve |-> <<>>]>>,
        !.notes = <<[id |-> 1, clip_bar_id |-> 1, pitch |-> 64, start_beat |-> 0,
                     duration_beats |-> 4, is_rest |-> FALSE]>>,
        !.seq = [@ EXCEPT !["clips"] = 1, !["clip_bars"] = 1, !["notes"] = 1]]

NoCall == [err |-> "", made |-> 0, ret |-> 0]

DbIdle ==
    /\ db = EmptyDb /\ db0 = EmptyDb /\ svc_arg = [bars |-> <<>>]
    /\ svc_out = NoCall /\ fetched = [found |-> FALSE] /\ svc_pc = "start"

InitClipService ==
    /\ db \in {EmptyDb, PriorDb}
    /\ db0 = db
    /\ svc_arg \in ServiceClips
    /\ svc_out = NoCall /\ fetched = [found |-> FALSE] /\ svc_pc = "start"

\* await clip_service.create_clip_from_dsl(svc_arg); the statement that fails
\* for a reason of the backend (none for fail_at = 0) is the environment's
CallCreateClipFromDsl ==
    /\ svc_pc = "start"
    /\ \E fail_at \in 0..MaxInserts, keeps \in BOOLEAN :
          \E r \in {create_clip_from_dsl(db, svc_arg, fail_at, keeps)} :
            /\ db' = r.db
            /\ svc_out' = [err |-> r.err, made |-> r.made, ret |-> r.ret]
            /\ svc_pc' = IF r.err = "" THEN "returned" ELSE "raised"
    /\ UNCHANGED <<db0, svc_arg, fetched>>

\* await clip_service.get_clip_with_bars_and_notes(clip_id) of the id returned
CallGetClip ==
    /\ svc_pc = "returned"
    /\ fetched' = get_clip_with_bars_and_notes(db, svc_out.ret)
    /\ svc_pc' = "fetched"
    /\ UNCHANGED <<db, db0, svc_arg, svc_out>>

--------------------------------------------------------------------------
(* Loading a DSL project into the database and exporting it again:         *)
(* OSCFacade.load_dsl_to_db and OSCFacade.composition_to_dsl.  A track is  *)
(* named by its position in the project.                                   *)

\* the keys of self.clip_library in insertion order
LibraryOrder(clip_library_def) ==
    Once(Sorted({k \in 1..Len(clip_library_def) :
                    \A j \in 1..(k - 1) :
                        clip_library_def[j].clip_id # clip_library_def[k].clip_id}),
         LAMBDA firsts :
         [j \in 1..Len(firsts) |-> clip_library_def[firsts[j]].clip_id])

\* parse_project, "for track_name, track_data in project['tracks'].items()"
\* from the k-th track on
RECURSIVE ParseTracks(_, _, _, _)
ParseTracks(lib, tracks_def, k, done) ==
    IF k > Len(tracks_def) THEN [err |-> "", lib |-> lib, tracks |-> done]
    ELSE Once(parse_track(lib, tracks_def[k]), LAMBDA r :
         IF r.err # ""
         THEN [err |-> r.err, lib |-> r.lib, tracks |-> <<>>]
         ELSE ParseTracks(r.lib, tracks_def, k + 1,
                          Append(done, [name |-> k, bars |-> r.bars])))

\* DSLParser.parse_project: the Composition and the parser's clip library,
\* or the ValueError
parse_project(project_def) ==
    Once(ParseTracks(parse_clip_library(project_def.clip_library,
                                        Len(project_def.clip_library)),
                     project_def.tracks, 1, <<>>), LAMBDA r :
         [err |-> r.err, name |-> project_def.name, lib |-> r.lib,
          order |-> LibraryOrder(project_def.clip_library),
          tracks |-> r.tracks])

\* bar_dict of to_database_format for one ClipBar
BarDict(clip_id, clip_bar) ==
    IF clip_bar.expression.set
    THEN [clip_id |-> clip_id, bar_index |-> clip_bar.bar_index,
          notes |-> clip_bar.notes,
          velocity_curve |-> clip_bar.expression.velocity_curve]
    ELSE [clip_id |-> clip_id, bar_index |-> clip_bar.bar_index,
          notes |-> clip_bar.notes]

\* DSLParser.to_database_format(composition)
to_database_format(parsed) ==
    [composition |-> [name |-> parsed.name],
     clips |-> [j \in 1..Len(parsed.order) |->
                  Once(parsed.lib[parsed.order[j]], LAMBDA clip :
                  [id |-> clip.clip_id, name |-> clip.name,
                   track_name |-> NoneValue,
                   bars |-> [b \in 1..Len(clip.bars) |->
                               BarDict(clip.clip_id, clip.bars[b])]])],
     tracks |-> parsed.tracks]

RECURSIVE InsertTrackBars(_, _, _, _, _)
\* "for bar_data in track_data.get('bars', [])" from the k-th bar on
InsertTrackBars(acc, bars, k, track_id, enforce) ==
    IF k > Len(bars) \/ acc.err # "" THEN acc
    ELSE Once(insert(acc.db, "track_bars",
                     [track_id       |-> track_id,
                      bar_index      |-> bars[k].bar_index,
                      clip_id        |-> bars[k].clip_id,
                      clip_bar_index |-> bars[k].clip_bar_index],
                     FALSE, enforce), LAMBDA r :
         InsertTrackBars([db |-> r.db, err |-> r.err], bars, k + 1, track_id,
                         enforce))

RECURSIVE InsertTracks(_, _, _, _, _)
\* "for track_data in dsl_composition.get('tracks', [])" from the k-th on
InsertTracks(acc, tracks, k, composition_id, enforce) ==
    IF k > Len(tracks) \/ acc.err # "" THEN acc
    ELSE Once(insert(acc.db, "tracks",
                     [composition_id |-> composition_id,
                      name           |-> tracks[k].name],
                     FALSE, enforce), LAMBDA r :
         IF r.err # "" THEN [db |-> r.db, err |-> r.err]
         ELSE Once(InsertTrackBars([db |-> r.db, err |-> ""], tracks[k].bars, 1,
                                   r.id, enforce), LAMBDA a :
              InsertTracks(a, tracks, k + 1, composition_id, enforce)))

\* CompositionService.create_composition_from_dsl: the database after the
\* call and the composition id, or the exception that left the session
create_composition_from_dsl(before, dsl_composition, enforce) ==
    Once(insert(before, "compositions", [name |-> dsl_composition.name],
                FALSE, enforce), LAMBDA r :
        IF r.err # ""
        THEN [db |-> session(TRUE, before, r.db, FALSE), err |-> r.err, ret |-> 0]
        ELSE Once(InsertTracks([db |-> r.db, err |-> ""], dsl_composition.tracks,
                               1, r.id, enforce), LAMBDA a :
             [db  |-> session(a.err # "", before, a.db, FALSE),
              err |-> a.err,
              ret |-> IF a.err = "" THEN r.id ELSE 0]))

RECURSIVE CreateClips(_, _, _, _)
\* load_dsl_to_db, "for clip_data in db_format['clips']" from the k-th on:
\* every clip in a session of its own
CreateClips(d, clips, k, clip_ids) ==
    IF k > Len(clips) THEN [db |-> d, err |-> "", clip_ids |-> clip_ids]
    ELSE Once(create_clip_from_dsl(d, clips[k], 0, FALSE), LAMBDA r :
         IF r.err # "" THEN [db |-> r.db, err |-> r.err, clip_ids |-> clip_ids]
         ELSE CreateClips(r.db, clips, k + 1, Append(clip_ids, r.ret)))

NotLoaded ==
    [err |-> "none", composition_id |-> 0, clip_ids |-> <<>>,
     parsed |-> [err |-> "none"]]

\* OSCFacade.load_dsl_to_db(config): the database after the call and the
\* DSLLoadResult, or the exception; parsed is the Composition it parsed
load_dsl_to_db(before, project_def, enforce) ==
    Once(parse_project(project_def), LAMBDA parsed :
    IF parsed.err # ""
    THEN [db |-> before, err |-> parsed.err, composition_id |-> 0,
          clip_ids |-> <<>>, parsed |-> parsed]
    ELSE Once(to_database_format(parsed), LAMBDA db_format :
         Once(CreateClips(before, db_format.clips, 1, <<>>), LAMBDA c :
         IF c.err # ""
         THEN [db |-> c.db, err |-> c.err, composition_id |-> 0,
               clip_ids |-> c.clip_ids, parsed |-> parsed]
         ELSE Once(create_composition_from_dsl(
                       c.db,
                       [name |-> db_format.composition.name,
                        tracks |-> db_format.tracks],
                       enforce), LAMBDA m :
              [db |-> m.db, err |-> m.err, composition_id |-> m.ret,
               clip_ids |-> c.clip_ids, parsed |-> parsed]))))

\* CompositionService.get_composition_with_tracks
get_composition_with_tracks(d, composition_id) ==
    IF FindBy(d.compositions, "id", composition_id) = <<>>
    THEN [found |-> FALSE]
    ELSE Once(FindBy(d.tracks, "composition_id", composition_id),
              LAMBDA found_tracks :
         [found  |-> TRUE,
          name   |-> FindBy(d.compositions, "id", composition_id)[1].name,
          tracks |-> [t \in 1..Len(found_tracks) |->
                        [name |-> found_tracks[t].name,
                         bars |-> OrderBy(FindBy(d.track_bars, "track_id",
                                                 found_tracks[t].id),
                                          "bar_index")]]])

\* the note dicts _db_clip_to_dsl appends for the notes of one bar
FlattenNotes(bar_row) ==
    [i \in 1..Len(bar_row.notes) |->
        IF bar_row.notes[i].is_rest
        THEN [start_beat |-> bar_row.notes[i].start_beat
                             + bar_row.bar_index * 4 * BeatUnit,
              duration_beats |-> bar_row.notes[i].duration_beats,
              is_rest |-> TRUE]
        ELSE [start_beat |-> bar_row.notes[i].start_beat
                             + bar_row.bar_index * 4 * BeatUnit,
              duration_beats |-> bar_row.notes[i].duration_beats,
              pitch |-> bar_row.notes[i].pitch]]

RECURSIVE FlattenBars(_, _)
\* dsl_clip["notes"] after the first k bars of "for bar in clip.get('bars', [])"
FlattenBars(bar_rows, k) ==
    IF k = 0 THEN <<>>
    ELSE FlattenBars(bar_rows, k - 1) \o FlattenNotes(bar_rows[k])

\* OSCFacade._db_clip_to_dsl(clip)
db_clip_to_dsl(clip) ==
    [clip_id |-> clip.id, name |-> clip.name,
     notes |-> FlattenBars(clip.bars, Len(clip.bars))]

\* clip_ids of composition_to_dsl: the clip ids the track bars reference
ReferencedClipIds(composition) ==
    UNION {{composition.tracks[t].bars[j].clip_id :
                j \in 1..Len(composition.tracks[t].bars)} :
           t \in 1..Len(composition.tracks)}

\* the clip instance composition_to_dsl writes for one track bar; a key
\* the instance lacks (bar_overrides) reads as its default
ExportedInstance(track_bar) ==
    [clip_id |-> track_bar.clip_id, start_bar |-> track_bar.bar_index,
     length_bars |-> 1, bar_overrides |-> <<>>]

\* OSCFacade.composition_to_dsl(composition_id): the project dict, or the
\* ValueError; the set of clip ids is walked in ascending order
composition_to_dsl(d, composition_id) ==
    Once(get_composition_with_tracks(d, composition_id), LAMBDA composition :
    IF ~composition.found
    THEN [err |-> "ValueError", name |-> NoneValue, clip_library |-> <<>>,
          tracks |-> <<>>]
    ELSE Once(SelectSeq(Sorted(ReferencedClipIds(composition)),
                        LAMBDA id : get_clip_with_bars_and_notes(d, id).found),
              LAMBDA ids :
         [err  |-> "",
          name |-> composition.name,
          clip_library |->
              [j \in 1..Len(ids) |->
                  db_clip_to_dsl(get_clip_with_bars_and_notes(d, ids[j]))],
          tracks |->
              [t \in 1..Len(composition.tracks) |->
                  [clips |-> [j \in 1..Len(composition.tracks[t].bars) |->
                                ExportedInstance(composition.tracks[t].bars[j])]]]]))

\* ---- scenario: a project is loaded, exported and parsed again ----

LoadNote(p, st, du) == FlatNote(p, st, du)

\* two libraries of a two-bar clip and a one-bar clip: declared as 1 and 2,
\* and declared as 1 and 5
LoadLibraries ==
    {<<[clip_id |-> 1, name |-> 11,
        notes |-> <<LoadNote(60, 0, 2), LoadNote(64, 8, 2)>>],
       [clip_id |-> second, name |-> 12,
        notes |-> <<LoadNote(67, 2, 4)>>]>> : second \in {2, 5}}

LoadInstances ==
    [clip_id : {1, 2, 5}, start_bar : {0, 1}, length_bars : 1..MaxLength,
     bar_overrides : {<<>>}]

LoadProjects ==
    {[name |-> 7, clip_library |-> lib, tracks |-> <<[clips |-> <<p1>>]>>] :
        lib \in LoadLibraries, p1 \in LoadInstances}
    \cup {[name |-> 7, clip_library |-> lib,
           tracks |-> <<[clips |-> <<p1>>], [clips |-> <<p2>>]>>] :
        lib \in LoadLibraries, p1 \in LoadInstances,
        p2 \in {p \in LoadInstances : p.start_bar = 1 /\ p.length_bars = 1}}

NotExported == [err |-> "none"]

LoadIdle ==
    /\ load_project = [name |-> 0, clip_library |-> <<>>, tracks |-> <<>>]
    /\ fk_enforced = FALSE /\ load_out = NotLoaded
    /\ exported = NotExported /\ reparsed = [err |-> "none"]
    /\ load_pc = "start"

\* the database is empty or holds an earlier clip; the backend enforces the
\* foreign keys (PostgreSQL) or not (SQLite)
InitLoad ==
    /\ db \in {EmptyDb, PriorDb}
    /\ db0 = db
    /\ svc_arg = [bars |-> <<>>] /\ svc_out = NoCall
    /\ fetched = [found |-> FALSE] /\ svc_pc = "start"
    /\ load_project \in LoadProjects
    /\ fk_enforced \in BOOLEAN
    /\ load_out = NotLoaded
    /\ exported = NotExported /\ reparsed = [err |-> "none"]
    /\ load_pc = "start"

\* await facade.load_dsl_to_db(DSLLoadConfig(dsl_json=...))
CallLoadDslToDb ==
    /\ load_pc = "start"
    /\ \E r \in {load_dsl_to_db(db, load_project, fk_enforced)} :
          /\ db' = r.db
          /\ load_out' = [err |-> r.err, composition_id |-> r.composition_id,
                          clip_ids |-> r.clip_ids, parsed |-> r.parsed]
          /\ load_pc' = IF r.err = "" THEN "loaded" ELSE "load_raised"
    /\ UNCHANGED <<db0, svc_arg, svc_out, fetched, svc_pc, load_project,
                   fk_enforced, exported, reparsed>>

\* await facade.composition_to_dsl(result.composition_id)
CallCompositionToDsl ==
    /\ load_pc = "loaded"
    /\ exported' = composition_to_dsl(db, load_out.composition_id)
    /\ load_pc' = IF exported'.err = "" THEN "exported" ELSE "export_raised"
    /\ UNCHANGED <<dbVars, load_project, fk_enforced, load_out, reparsed>>

\* DSLParser().parse_project({"project": project}) of the exported project
CallReparse ==
    /\ load_pc = "exported"
    /\ reparsed' = parse_project(exported)
    /\ load_pc' = "reparsed"
    /\ UNCHANGED <<dbVars, load_project, fk_enforced, load_out, exported>>

--------------------------------------------------------------------------
(* The clips the facade hands to the live player: play_clip_from_sml       *)
(* passes the dict of sml_to_dsl_clip, play_clip the dict of clip_to_dsl;  *)
(* midi_player.play_clip gives it to MidiClipPlayer.play_dsl_clip, whose   *)
(* first statement builds the schedule.                                    *)

\* note.get("is_rest", False)
IsRest(note) == IF "is_rest" \in DOMAIN note THEN note.is_rest ELSE FALSE

\* the keys _schedule_events reads from a note that is not a rest
NoteKeysRead == {"pitch", "start_beat", "duration_beats"}

\* a note dict as the scheduler reads it
AsLiveNote(note) ==
    IF IsRest(note) THEN LiveNote(0, 0, 0, TRUE)
    ELSE LiveNote(note.pitch, note.start_beat, note.duration_beats, FALSE)

\* a bar dict as the scheduler reads it: bar["bar_index"], bar.get(...) for
\* the rest; the bars of an SML clip are numbered from 0 in list order
AsLiveBar(bar_data, k) ==
    LiveBar(IF "bar_index" \in DOMAIN bar_data THEN bar_data.bar_index ELSE k - 1,
            IF "notes" \in DOMAIN bar_data
            THEN [i \in 1..Len(bar_data.notes) |-> AsLiveNote(bar_data.notes[i])]
            ELSE <<>>,
            IF "velocity_curve" \in DOMAIN bar_data THEN bar_data.velocity_curve
            ELSE <<>>,
            <<>>, <<>>, <<>>, <<>>)

\* MidiClipPlayer._schedule_events on a clip dict of any shape: no bars
\* without the key "bars", KeyError at the first sounding note that lacks
\* a key read with note[...]
schedule_events_of_dict(clip) ==
    IF "bars" \notin DOMAIN clip THEN NoEvents
    ELSE IF \E k \in 1..Len(clip.bars) :
               /\ "notes" \in DOMAIN clip.bars[k]
               /\ \E i \in 1..Len(clip.bars[k].notes) :
                     /\ ~IsRest(clip.bars[k].notes[i])
                     /\ ~(NoteKeysRead \subseteq DOMAIN clip.bars[k].notes[i])
    THEN EventsError("KeyError")
    ELSE schedule_events([bars |-> [k \in 1..Len(clip.bars) |->
                                       AsLiveBar(clip.bars[k], k)]])

\* OSCFacade.clip_to_dsl(clip_id) of a clip the database holds
clip_to_dsl(d, clip_id) == db_clip_to_dsl(get_clip_with_bars_and_notes(d, clip_id))

\* the SML clip is to be converted, or the database clip is to be created;
\* the player has not been called
InitFacadePlay ==
    /\ \/ InitClip /\ DbIdle
       \/ ClipIdle /\ InitClipService
    /\ PlayIdle

\* play_clip_from_sml: play_clip(clip_data=self.sml_to_dsl_clip(sml_clip)),
\* up to the schedule of play_dsl_clip
PlayClipFromSml ==
    /\ clip_pc = "returned" /\ play_pc = "idle"
    /\ live_clip' = [bars |-> dsl_clip.bars]
    /\ \E r \in {schedule_events_of_dict(live_clip')} :
          /\ sched' = r.evs
          /\ play_pc' = IF r.err # "" THEN "raised" ELSE "scheduled"
    /\ UNCHANGED <<loop, walked, elapsed, now_read, slept, dispatched, pass1, passes>>

\* play_clip: play_clip(clip_data=await self.clip_to_dsl(clip_id)), up to
\* the schedule of play_dsl_clip
PlayClip ==
    /\ svc_pc = "returned" /\ play_pc = "idle"
    /\ live_clip' = clip_to_dsl(db, svc_out.ret)
    /\ \E r \in {schedule_events_of_dict(live_clip')} :
          /\ sched' = r.evs
          /\ play_pc' = IF r.err # "" THEN "raised" ELSE "scheduled"
    /\ UNCHANGED <<loop, walked, elapsed, now_read, slept, dispatched, pass1, passes>>

--------------------------------------------------------------------------
(* The components added after the live player, all idle *)

LaterIdle == DbIdle /\ LoadIdle

NewIdle == SessIdle /\ LaterIdle

--------------------------------------------------------------------------
(* The components added after the curve evaluators, all idle *)

RestIdle == RenderIdle /\ ParserIdle /\ ClipIdle /\ PlayIdle /\ NewIdle

--------------------------------------------------------------------------
(* Specifications: one per component, the other components idle *)

NextPitch ==
    \/ CallFromString /\ UNCHANGED <<durVars, barVars, curveVars, restVars>>
    \/ CallFromMidi /\ UNCHANGED <<durVars, barVars, curveVars, restVars>>
    \/ CallRoundTrip /\ UNCHANGED <<durVars, barVars, curveVars, restVars>>

StartPitch == InitPitch /\ DurIdle /\ BarIdle /\ CurveIdle /\ RestIdle

SpecPitch == StartPitch /\ [][NextPitch]_vars

NextDuration ==
    \/ CallComputeUnits /\ UNCHANGED <<pitchVars, barVars, curveVars, restVars>>
    \/ CallNoteItem /\ UNCHANGED <<pitchVars, barVars, curveVars, restVars>>
    \/ CallRestItem /\ UNCHANGED <<pitchVars, barVars, curveVars, restVars>>

StartDuration == PitchIdle /\ InitDuration /\ BarIdle /\ CurveIdle /\ RestIdle

SpecDuration == StartDuration /\ [][NextDuration]_vars

NextBar ==
    \/ BuildBar /\ UNCHANGED <<pitchVars, durVars, curveVars, restVars>>
    \/ CallLayout /\ UNCHANGED <<pitchVars, durVars, curveVars, restVars>>
    \/ CallValidateAndLayout /\ UNCHANGED <<pitchVars, durVars, curveVars, restVars>>
    \/ CallToSpecClipbar /\ UNCHANGED <<pitchVars, durVars, curveVars, restVars>>
    \/ CallToSpecClip /\ UNCHANGED <<pitchVars, durVars, curveVars, restVars>>

StartBar == PitchIdle /\ DurIdle /\ InitBar /\ CurveIdle /\ RestIdle

SpecBar == StartBar /\ [][NextBar]_vars

NextCurve ==
    \/ EvalBatch /\ UNCHANGED <<pitchVars, durVars, barVars, restVars>>
    \/ EvalLive /\ UNCHANGED <<pitchVars, durVars, barVars, restVars>>

StartCurve == PitchIdle /\ DurIdle /\ BarIdle /\ InitCurve /\ RestIdle

SpecCurve == StartCurve /\ [][NextCurve]_vars

OldIdle == PitchIdle /\ DurIdle /\ BarIdle /\ CurveIdle /\ NewIdle
oldVars == <<pitchVars, durVars, barVars, curveVars, newVars>>

NextRender ==
    \/ CallRender /\ UNCHANGED <<oldVars, parserVars, clipVars, playVars>>

StartRender == OldIdle /\ InitRender /\ ParserIdle /\ ClipIdle /\ PlayIdle

NextParser ==
    \/ ParseClipLibrary /\ UNCHANGED <<oldVars, renderVars, clipVars, playVars>>
    \/ ParseTrack /\ UNCHANGED <<oldVars, renderVars, clipVars, playVars>>
    \/ BuildComposition /\ UNCHANGED <<oldVars, renderVars, clipVars, playVars>>
    \/ CallCompositionFromSmil /\ UNCHANGED <<oldVars, renderVars, clipVars, playVars>>

StartParser == OldIdle /\ RenderIdle /\ InitParser /\ ClipIdle /\ PlayIdle

SpecParser == StartParser /\ [][NextParser]_vars

NextClip ==
    \/ CallClipFromSmilDict /\ UNCHANGED <<oldVars, renderVars, parserVars, playVars>>
    \/ CallClipToSpecClip /\ UNCHANGED <<oldVars, renderVars, parserVars, playVars>>

StartClip == OldIdle /\ RenderIdle /\ ParserIdle /\ InitClip /\ PlayIdle

SpecClip == StartClip /\ [][NextClip]_vars

NextPlay ==
    \/ ScheduleEvents /\ UNCHANGED <<oldVars, renderVars, parserVars, clipVars>>
    \/ ReadClockAndSleep /\ UNCHANGED <<oldVars, renderVars, parserVars, clipVars>>
    \/ SendMessage /\ UNCHANGED <<oldVars, renderVars, parserVars, clipVars>>
    \/ EndPass /\ UNCHANGED <<oldVars, renderVars, parserVars, clipVars>>

StartPlay == OldIdle /\ RenderIdle /\ ParserIdle /\ ClipIdle /\ InitPlay

SpecPlay == StartPlay /\ [][NextPlay]_vars

\* play_dsl_clip is one sequential loop: its next step is always taken
SpecPlayFair == StartPlay /\ [][NextPlay]_vars /\ WF_vars(NextPlay)

SpecRender == StartRender /\ [][NextRender]_vars

firstVars == <<pitchVars, durVars, barVars, curveVars>>
FirstIdle == PitchIdle /\ DurIdle /\ BarIdle /\ CurveIdle

NextSession ==
    \/ SessionStep /\ UNCHANGED <<firstVars, renderVars, parserVars, clipVars, laterVars>>
    \/ SessionSend /\ UNCHANGED <<firstVars, renderVars, parserVars, clipVars, laterVars>>
    \/ RequestCancel /\ UNCHANGED <<firstVars, renderVars, parserVars, clipVars, laterVars>>

StartSession ==
    FirstIdle /\ RenderIdle /\ ParserIdle /\ ClipIdle /\ InitPlay /\ SessIdle
    /\ LaterIdle

SpecSession == StartSession /\ [][NextSession]_vars

NextCompare ==
    \/ CallRender /\ UNCHANGED <<oldVars, parserVars, clipVars, playVars>>
    \/ CallScheduleEvents /\ UNCHANGED <<oldVars, renderVars, parserVars, clipVars>>

NextSchedule ==
    \/ CallScheduleEvents /\ UNCHANGED <<oldVars, renderVars, parserVars, clipVars>>

StartSchedule == OldIdle /\ RenderIdle /\ ParserIdle /\ ClipIdle /\ InitSchedule

SpecSchedule == StartSchedule /\ [][NextSchedule]_vars

StartCompare == OldIdle /\ ParserIdle /\ ClipIdle /\ InitCompare

SpecCompare == StartCompare /\ [][NextCompare]_vars

earlyVars == <<firstVars, renderVars, parserVars, clipVars, playVars, sessVars>>
EarlyIdle ==
    FirstIdle /\ RenderIdle /\ ParserIdle /\ ClipIdle /\ PlayIdle /\ SessIdle

NextClipService ==
    \/ CallCreateClipFromDsl /\ UNCHANGED <<earlyVars, loadVars>>
    \/ CallGetClip /\ UNCHANGED <<earlyVars, loadVars>>

StartClipService == EarlyIdle /\ InitClipService /\ LoadIdle

NextLoad ==
    \/ CallLoadDslToDb /\ UNCHANGED earlyVars
    \/ CallCompositionToDsl /\ UNCHANGED earlyVars
    \/ CallReparse /\ UNCHANGED earlyVars

StartLoad == EarlyIdle /\ InitLoad

SpecLoad == StartLoad /\ [][NextLoad]_vars

NextFacadePlay ==
    \/ CallClipFromSmilDict
          /\ UNCHANGED <<firstVars, renderVars, parserVars, playVars, newVars>>
    \/ CallClipToSpecClip
          /\ UNCHANGED <<firstVars, renderVars, parserVars, playVars, newVars>>
    \/ CallCreateClipFromDsl
          /\ UNCHANGED <<earlyVars, loadVars>>
    \/ PlayClipFromSml
          /\ UNCHANGED <<firstVars, renderVars, parserVars, clipVars, newVars>>
    \/ PlayClip
          /\ UNCHANGED <<firstVars, renderVars, parserVars, clipVars, newVars>>

StartFacadePlay ==
    FirstIdle /\ RenderIdle /\ ParserIdle /\ SessIdle /\ LoadIdle /\ InitFacadePlay

SpecFacadePlay == StartFacadePlay /\ [][NextFacadePlay]_vars

SpecClipService == StartClipService /\ [][NextClipService]_vars

--------------------------------------------------------------------------
(* Properties *)

\* sum of the duration units of the first k items
RECURSIVE SumUnits(_, _)
SumUnits(items, k) == IF k = 0 THEN 0 ELSE SumUnits(items, k - 1) + items[k].units

FourQuarters ==
    /\ Len(raw.d) = 4
    /\ \A i \in 1..4 : raw.d[i].duration = Word("quarter")
    /\ raw.units_per_bar = 32

\* C1: after a layout call every item, in list order, has start_unit equal
\* to the sum of the duration units of the items before it and
\* duration_units equal to its own duration units; four quarter items in a
\* 32-unit bar get the offsets 0, 8, 16, 24 and do not overflow.
C1_LayoutOffsets ==
    calls > 0 =>
        /\ \A i \in 1..Len(bar.items) :
              /\ bar.items[i].start_unit = SumUnits(bar.items, i - 1)
              /\ bar.items[i].duration_units = bar.items[i].units
        /\ FourQuarters =>
              /\ [i \in 1..4 |-> bar.items[i].start_unit] = <<0, 8, 16, 24>>
              /\ ~outcome.raised

C1_Witness ==
    /\ calls > 0 /\ FourQuarters
    /\ bar.items[4].start_unit = 24 /\ bar.items[4].duration_units = 8

\* C2: a layout call raises the overflow error exactly when the summed
\* duration units exceed the bar's units_per_bar, and its final cursor is
\* that sum; a bar that exactly fills its capacity is accepted and 33
\* one-unit items in a 32-unit bar are rejected.
C2_OverflowIff ==
    calls > 0 =>
        /\ outcome.raised <=> (SumUnits(bar.items, Len(bar.items)) > bar.units_per_bar)
        /\ outcome.cursor = SumUnits(bar.items, Len(bar.items))
        /\ SumUnits(bar.items, Len(bar.items)) = bar.units_per_bar => ~outcome.raised
        /\ (Len(bar.items) = 33 /\ bar.units_per_bar = 32) => outcome.raised

C2_Witness ==
    /\ calls > 0 /\ Len(bar.items) = 33 /\ bar.units_per_bar = 32
    /\ \A i \in 1..33 : bar.items[i].units = 1
    /\ outcome.raised

\* C3: a layout call on a bar that was already laid out leaves every
\* item's start_unit and duration_units as they were and, the capacity
\* being the same, gives the same success/overflow outcome and cursor; in
\* particular the second layout inside to_spec_clip repeats the first.
C3_LayoutIdempotent ==
    prev.laid =>
        /\ bar.items = prev.bar.items
        /\ bar.units_per_bar = prev.bar.units_per_bar =>
              /\ outcome.raised = prev.outcome.raised
              /\ outcome.cursor = prev.outcome.cursor

C3_Witness ==
    /\ outcome.by = "to_spec_clip" /\ prev.laid
    /\ Len(bar.items) >= 2
    /\ bar.items[2].start_unit > 0
    /\ prev.outcome.by = "validate_and_layout"

DigitChar(d) ==
    CASE d = 0 -> "0" [] d = 1 -> "1" [] d = 2 -> "2" [] d = 3 -> "3" [] d = 4 -> "4"
      [] d = 5 -> "5" [] d = 6 -> "6" [] d = 7 -> "7" [] d = 8 -> "8" [] d = 9 -> "9"

RECURSIVE ShowNat(_)
ShowNat(k) ==
    IF k < 10 THEN <<DigitChar(k)>> ELSE ShowNat(k \div 10) \o <<DigitChar(k % 10)>>

ShowInt(k) == IF k < 0 THEN <<"-">> \o ShowNat(0 - k) ELSE ShowNat(k)

\* the pitch string of a letter, an accidental ("" for none) and an octave
Spell(l, a, o) == <<l>> \o (IF a = "" THEN <<>> ELSE <<a>>) \o ShowInt(o)

SpelledOctaves == (0 - 12)..12

NaturalSemitone(l) ==
    CASE l = "C" -> 0 [] l = "D" -> 2 [] l = "E" -> 4 [] l = "F" -> 5
      [] l = "G" -> 7 [] l = "A" -> 9 [] l = "B" -> 11

ExpectedMidi(l, a, o) ==
    (o + 1) * 12 + NaturalSemitone(l)
        + (IF a = "#" THEN 1 ELSE IF a = "b" THEN 0 - 1 ELSE 0)

\* C4: from_string on letter A-G, optional accidental # or b, and a signed
\* octave returns midi = (octave+1)*12 + semitone (C0 D2 E4 F5 G7 A9 B11,
\* # adds 1, b subtracts 1) whenever that value is a MIDI number; "C4"
\* gives 60.
C4_FromStringMidi ==
    ppc = "from_string" =>
        /\ \A l \in UpperLetters :
              (s # <<>> /\ s[1] = l) =>
                 \A a \in {"", "#", "b"}, o \in SpelledOctaves :
                    (s = Spell(l, a, o) /\ ExpectedMidi(l, a, o) \in 0..127) =>
                       /\ pitch.ok
                       /\ pitch.midi = ExpectedMidi(l, a, o)
                       /\ pitch.octave = o
        /\ s = <<"C", "4">> => pitch.ok /\ pitch.midi = 60

C4_Witness ==
    /\ ppc = "from_string" /\ s = <<"B", "b", "-", "1">>
    /\ pitch.ok /\ pitch.midi = 10

\* the regular expression, read as a language: one letter, at most one
\* accidental character, an optional minus sign, one or more digits
MatchesPitchPattern(str) ==
    \E k \in 1..2, j \in 0..1 :
        /\ Len(str) > k + j
        /\ str[1] \in UpperLetters \cup LowerLetters
        /\ k = 2 => str[2] \in AccidentalChars
        /\ j = 1 => str[k + 1] = "-"
        /\ \A i \in (k + j + 1)..Len(str) : str[i] \in Digits

\* C5: from_string fails when the (trimmed) string does not match the
\* pitch pattern, when the letter is not A-G, or when the computed MIDI
\* value is outside 0..127; from_midi fails when n is outside 0..127; every
\* Pitch either constructor returns has midi in 0..127.
C5_PitchFailures ==
    /\ ppc = "from_string" =>
          /\ ~MatchesPitchPattern(Strip(s)) => ~pitch.ok
          /\ (s # <<>> /\ s[1] \notin Whitespace
                /\ Upper(s[1]) \notin UpperLetters) => ~pitch.ok
          /\ \A l \in UpperLetters :
                (s # <<>> /\ s[1] = l) =>
                   \A a \in {"", "#", "b"}, o \in SpelledOctaves :
                      (s = Spell(l, a, o) /\ ExpectedMidi(l, a, o) \notin 0..127)
                          => ~pitch.ok
    /\ ppc = "from_midi" => (n \notin 0..127 => ~pitch.ok)
    /\ pitch.ok => pitch.midi \in 0..127
    /\ pitch2.ok => pitch2.midi \in 0..127

C5_Witness ==
    /\ ppc = "from_string" /\ s = <<"G", "#", "9">> /\ ~pitch.ok

\* C6: for every pitch string s that from_string accepts,
\* from_midi(from_string(s).midi) succeeds and has the same midi; this
\* includes Cb4 and B#3, whose canonical names lie in the other octave.
C6_MidiRoundTrip ==
    ppc = "round_trip" =>
        /\ pitch2.ok
        /\ pitch2.midi = pitch.midi

C6_Witness ==
    /\ ppc = "round_trip" /\ s = <<"C", "b", "4">>
    /\ pitch.octave = 4 /\ pitch2.octave = 3 /\ pitch2.name = <<"B", "">>
    /\ pitch2.midi = 59

\* the duration table as the source lists it
TableUnits(w) ==
    CASE w = "whole" -> 32 [] w = "half" -> 16 [] w = "quarter" -> 8
      [] w = "eighth" -> 4 [] w = "sixteenth" -> 2 [] w = "thirty_second" -> 1
      [] w = "dotted_half" -> 24 [] w = "dotted_quarter" -> 12
      [] w = "dotted_eighth" -> 6 [] w = "triplet_quarter" -> 5
      [] w = "triplet_eighth" -> 3 [] w = "triplet_sixteenth" -> 1

\* round(x / 2) for a natural x, Python's round: a half goes to the even
\* neighbour
RoundOfHalf(x) ==
    IF x % 2 = 0 THEN x \div 2
    ELSE IF ((x - 1) \div 2) % 2 = 0 THEN (x - 1) \div 2 ELSE (x + 1) \div 2

BaseUnits(key) ==
    IF key.word # "" THEN TableUnits(key.word) ELSE IntOfStr(key.lit)

\* C8: a duration whose scaled and rounded value is 0 units is rejected;
\* no note or rest item is built from it.
C8_ZeroUnitsRejected ==
    (dpc = "item" /\ RoundHalfEven(BaseUnits(dname) * dupb, 32) = 0) => ~ditem.ok

StrictlyIncreasing(c) == \A i \in 1..(Len(c) - 1) : c[i].time < c[i + 1].time

\* what C9 asks of one evaluator's result r
ClampsAndHits(r) ==
    /\ target <= curve[1].time => r = CurveValue(curve[1].value)
    /\ target >= curve[Len(curve)].time => r = CurveValue(curve[Len(curve)].value)
    /\ \A i \in 1..Len(curve) : target = curve[i].time => r = CurveValue(curve[i].value)

Interior == curve # <<>> /\ StrictlyIncreasing(curve)
            /\ curve[1].time < target /\ target < curve[Len(curve)].time

\* r is exactly v0 + (v1-v0)*(t-t0)/(t1-t0) on the interval bracketing target
ExactOnBracket(r) ==
    /\ r.kind = "value"
    /\ \A i \in 1..(Len(curve) - 1) :
          (curve[i].time <= target /\ target < curve[i + 1].time) =>
              r.value * (curve[i + 1].time - curve[i].time)
                 = curve[i].value * (curve[i + 1].time - curve[i].time)
                   + (curve[i + 1].value - curve[i].value) * (target - curve[i].time)

\* r is that quantity with its fraction dropped (rounded toward zero)
TruncatedOnBracket(r) ==
    /\ r.kind = "value"
    /\ \A i \in 1..(Len(curve) - 1) :
          (curve[i].time <= target /\ target < curve[i + 1].time) =>
              LET den == curve[i + 1].time - curve[i].time
                  num == curve[i].value * den
                         + (curve[i + 1].value - curve[i].value) * (target - curve[i].time)
              IN  IF num >= 0
                  THEN r.value * den <= num /\ num < (r.value + 1) * den
                  ELSE (r.value - 1) * den < num /\ num <= r.value * den

\* C10 as stated: strictly inside the curve each evaluator returns
\* v0 + (v1-v0)*(t-t0)/(t1-t0) for the bracketing interval, and the two
\* evaluators agree.
C10_Original ==
    Interior =>
        /\ batch # NotEvaluated => ExactOnBracket(batch)
        /\ live # NotEvaluated => ExactOnBracket(live)
        /\ (batch # NotEvaluated /\ live # NotEvaluated) => batch = live

\* C10 amended: strictly inside the curve each evaluator returns
\* v0 + (v1-v0)*(t-t0)/(t1-t0) truncated toward zero to an integer; the
\* curve (0,90),(4,100) gives 95 at t = 2; the two evaluators agree.
C10_TruncatedInterpolation ==
    /\ Interior =>
          /\ batch # NotEvaluated => TruncatedOnBracket(batch)
          /\ live # NotEvaluated => TruncatedOnBracket(live)
          /\ (batch # NotEvaluated /\ live # NotEvaluated) => batch = live
    /\ (curve = <<[time |-> 0, value |-> 90], [time |-> 4, value |-> 100]>> /\ target = 2) =>
          /\ batch # NotEvaluated => batch = CurveValue(95)
          /\ live # NotEvaluated => live = CurveValue(95)

C10_Witness ==
    /\ curve = <<[time |-> 0, value |-> 0 - 2], [time |-> 4, value |-> 0 - 7]>>
    /\ target = 1
    /\ batch = CurveValue(0 - 3) /\ live = CurveValue(0 - 3)

--------------------------------------------------------------------------
(* Batch renderer properties *)

Rendered == rpc = "rendered" /\ rout.ok

NonDecreasing(q) == \A k \in 1..(Len(q) - 1) : q[k] <= q[k + 1]

TicksOf(evs) == [k \in 1..Len(evs) |-> evs[k].tick]

AtTick(evs, t) == SelectSeq(evs, LAMBDA e : e.tick = t)

\* the channel messages of a rendered track, after the meta messages
NoteMessages(tr) == SelectSeq(tr.messages, LAMBDA m : m.type \in {"note_on", "note_off"})

\* C11: in every rendered track the events are emitted in non-decreasing
\* absolute-tick order, every emitted delta is >= 0, and the events of one
\* tick are emitted in the order in which they were generated.
C11_SortedStableDeltas ==
    Rendered =>
        \A i \in 1..Len(rout.tracks) :
            LET tr == rout.tracks[i]
                emitted == NoteMessages(tr)
            IN  /\ NonDecreasing(TicksOf(tr.events))
                /\ Len(tr.events) = Len(tr.generated)
                /\ \A k \in 1..Len(tr.generated) :
                      AtTick(tr.events, tr.generated[k].tick)
                          = AtTick(tr.generated, tr.generated[k].tick)
                /\ Len(emitted) = Len(tr.events)
                /\ \A k \in 1..Len(emitted) :
                      /\ emitted[k].time >= 0
                      /\ [emitted[k] EXCEPT !.time = 0] = tr.events[k].msg

\* a render in which the sort moved events and kept a tie of two different
\* events in generation order
C11_Witness ==
    /\ Rendered
    /\ \E i \in 1..Len(rout.tracks) :
          LET tr == rout.tracks[i]
          IN  /\ tr.events # tr.generated
              /\ \E k \in 1..(Len(tr.events) - 1) :
                    /\ tr.events[k].tick = tr.events[k + 1].tick
                    /\ tr.events[k].msg # tr.events[k + 1].msg
              /\ \E k \in 1..Len(tr.messages) : tr.messages[k].time > 0

BeatTick(units, ticks_per_beat) == RoundHalfEven(units * ticks_per_beat, BeatUnit)

\* the non-rest notes a bar ref places, each with the ref's bar_index and
\* the bar's velocity curve; none when the ref does not resolve
PlacedNotes(clips, bar_ref) ==
    IF ~Resolves(clips, bar_ref) THEN <<>>
    ELSE LET b == clips[bar_ref.clip_id][bar_ref.clip_bar_index + 1]
             ns == SelectSeq(b.notes, LAMBDA x : ~x.is_rest)
         IN  [j \in 1..Len(ns) |->
                 [note |-> ns[j], bar_index |-> bar_ref.bar_index,
                  velocity_curve |-> b.velocity_curve]]

RECURSIVE Sounding(_, _, _)
Sounding(clips, bars, k) ==
    IF k > Len(bars) THEN <<>>
    ELSE PlacedNotes(clips, bars[k]) \o Sounding(clips, bars, k + 1)

CurveVelocity(velocity_curve, start) ==
    IF velocity_curve = <<>> THEN 100
    ELSE interpolate_curve_batch(velocity_curve, start).value

\* C12: every non-rest note of every resolved track bar produces exactly
\* two events, a note-on at beat (bar_index-1)*beats_per_bar + start with
\* the velocity of the bar's curve at start (100 without a curve) and a
\* note-off at that beat plus the duration; rests produce nothing.
C12_TwoEventsPerNote ==
    Rendered =>
        \A i \in 1..Len(rout.tracks) :
            LET generated == rout.tracks[i].generated
                placed == Sounding(rdata.clips, rdata.tracks[i].bars, 1)
                tpq == rdata.ticks_per_quarter
            IN  /\ Len(generated) = 2 * Len(placed)
                /\ Len(NoteMessages(rout.tracks[i])) = 2 * Len(placed)
                /\ \A j \in 1..Len(placed) :
                      LET pn == placed[j]
                          on == generated[2 * j - 1]
                          off == generated[2 * j]
                          beat == (pn.bar_index - 1) * beats_per_bar * BeatUnit
                                  + pn.note.start
                      IN  /\ on.msg.type = "note_on"
                          /\ on.msg.note = pn.note.absolute_pitch
                          /\ on.msg.velocity
                                = CurveVelocity(pn.velocity_curve, pn.note.start)
                          /\ on.tick = BeatTick(beat, tpq)
                          /\ off.msg.type = "note_off"
                          /\ off.msg.note = pn.note.absolute_pitch
                          /\ off.tick = BeatTick(beat + pn.note.duration, tpq)

\* bar 2 of a track plays the second bar of the fixed clip: its note at
\* half-beat 1 with the curve 90..100 gives velocity 92 at tick 2160, and
\* its rest gives nothing
C12_Witness ==
    /\ Rendered
    /\ rdata.ticks_per_quarter = 480
    /\ rdata.clips = (1 :> FixedClip)
    /\ rdata.tracks = <<[bars |-> <<[bar_index |-> 2, clip_id |-> 1,
                                     clip_bar_index |-> 1]>>]>>
    /\ rout.tracks[1].generated
         = << [tick |-> 2160, msg |-> Message("note_on", 64, 92, 0)],
              [tick |-> 2640, msg |-> Message("note_off", 64, 0, 0)] >>

\* C13: every note event of the track at 0-based position i is on channel
\* i mod 16, and the tempo marker is on the first track and on no other.
C13_ChannelAndTempo ==
    Rendered =>
        \A i \in 1..Len(rout.tracks) :
            LET tr == rout.tracks[i]
            IN  /\ \A k \in 1..Len(tr.messages) :
                      tr.messages[k].type \in {"note_on", "note_off"}
                          => tr.messages[k].channel = (i - 1) % 16
                /\ (\E k \in 1..Len(tr.messages) : tr.messages[k].type = "set_tempo")
                      <=> i = 1

\* a seventeenth track whose notes are back on channel 0
C13_Witness ==
    /\ Rendered
    /\ Len(rout.tracks) >= 17
    /\ \E k \in 1..Len(rout.tracks[17].messages) :
          /\ rout.tracks[17].messages[k].type = "note_on"
          /\ rout.tracks[17].messages[k].channel = 0
    /\ \E k \in 1..Len(rout.tracks[16].messages) :
          /\ rout.tracks[16].messages[k].type = "note_on"
          /\ rout.tracks[16].messages[k].channel = 15

Unresolved ==
    \E i \in 1..Len(rdata.tracks) :
        \E k \in 1..Len(rdata.tracks[i].bars) :
            ~Resolves(rdata.clips, rdata.tracks[i].bars[k])

\* C14: a render whose tracks reference a clip_id that is not among the
\* clips, or a clip_bar_index outside the clip's bars, aborts with an error
\* and returns no event stream.
C14_MissingReferenceAborts ==
    (rpc = "rendered" /\ Unresolved) => ~rout.ok

--------------------------------------------------------------------------
(* DSL parser properties *)

ParseDone == parse_pc \in {"done", "both"}

\* number of bars of a library clip as _parse_clip_library built it
BarCount(clip_id) == Len(lib0[clip_id].bars)

\* refs contributed by the first k placements of a track
RECURSIVE RefsBefore(_, _)
RefsBefore(clips, k) ==
    IF k = 0 THEN 0 ELSE RefsBefore(clips, k - 1) + clips[k].length_bars

AssembledAsClaimed(track_def, track) ==
    LET clips == track_def.clips
    IN  /\ Len(track.bars) = RefsBefore(clips, Len(clips))
        /\ \A k \in 1..Len(clips) :
              \A i \in 1..clips[k].length_bars :
                  LET ref == track.bars[RefsBefore(clips, k - 1) + i]
                  IN  /\ ref.bar_index = clips[k].start_bar + (i - 1)
                      /\ ref.clip_id = clips[k].clip_id
                      /\ clips[k].clip_id \in DOMAIN lib0 =>
                            /\ ref.clip_bar_index \in 0..(BarCount(ref.clip_id) - 1)
                            /\ ref.clip_bar_index = (i - 1) % BarCount(ref.clip_id)

\* C15: each placement (start_bar, length_bars) becomes exactly length_bars
\* refs with bar_index start_bar, start_bar+1, ... in order, the i-th one
\* referencing clip bar i modulo the clip's bar count, a valid index into
\* the clip's bars; for DSLParser._parse_track and composition_from_smil_dict.
C15_TrackAssembly ==
    /\ (ParseDone /\ presult.ok) =>
          \A t \in 1..Len(project.tracks) :
              AssembledAsClaimed(project.tracks[t], presult.tracks[t])
    /\ (parse_pc = "both" /\ smil.ok) =>
          \A t \in 1..Len(project.tracks) :
              AssembledAsClaimed(project.tracks[t], smil.tracks[t])

\* C16: applying a placement's bar_overrides leaves the clip held in the
\* clip library as it was: after parsing, every library clip bar has the
\* expression it had when the library was built.
C16_LibraryNotMutated ==
    ParseDone => clip_library = lib0

Abs(x) == IF x >= 0 THEN x ELSE 0 - x

\* floor(start_beat / beats_per_bar): the bar whose span holds start_beat
FloorBar(start_beat) ==
    LET span == beats_per_bar * BeatUnit
    IN  CHOOSE q \in (0 - Abs(start_beat) - 1)..(Abs(start_beat) + 1) :
            q * span <= start_beat /\ start_beat < (q + 1) * span

\* C17: the flat-note policy puts every note in bar floor(start_beat /
\* beats_per_bar) at start_beat mod beats_per_bar with its duration
\* unchanged, never fails, makes one ClipBar per distinct bar index in
\* ascending order, and keeps the notes of a bar in input order.
C17_FlatNotePolicy ==
    parse_pc \notin {"idle", "start"} =>
        \A c \in 1..Len(project.clip_library) :
            LET notes == project.clip_library[c].notes
                bars == lib0[project.clip_library[c].clip_id].bars
                span == beats_per_bar * BeatUnit
            IN  /\ \A j \in 1..(Len(bars) - 1) : bars[j].bar_index < bars[j + 1].bar_index
                /\ {bars[j].bar_index : j \in 1..Len(bars)}
                      = {FloorBar(notes[i].start_beat) : i \in 1..Len(notes)}
                /\ \A j \in 1..Len(bars) :
                      LET mine == SelectSeq(notes,
                                     LAMBDA x : FloorBar(x.start_beat) = bars[j].bar_index)
                          placed == bars[j].notes
                      IN  /\ Len(placed) = Len(mine)
                          /\ \A r \in 1..Len(mine) :
                                /\ placed[r].absolute_pitch = mine[r].pitch
                                /\ placed[r].start >= 0 /\ placed[r].start < span
                                /\ bars[j].bar_index * span + placed[r].start
                                      = mine[r].start_beat
                                /\ placed[r].duration = mine[r].duration_beats

\* a later note lands in an earlier bar: the bars come out as -1 and 2, and
\* the note of duration 9 that starts at 7 in its bar is kept whole
C17_Witness ==
    /\ parse_pc = "tracks"
    /\ project.clip_library = <<[clip_id |-> 1,
                                 notes |-> <<FlatNote(62, 17, 1), FlatNote(60, 0 - 1, 9)>>]>>
    /\ Len(lib0[1].bars) = 2
    /\ lib0[1].bars[1].bar_index = 0 - 1
    /\ lib0[1].bars[1].notes[1].start = 7
    /\ lib0[1].bars[1].notes[1].duration = 9
    /\ lib0[1].bars[2].bar_index = 2
    /\ lib0[1].bars[2].notes[1].start = 1

--------------------------------------------------------------------------
(* Clip conversion properties *)

InvalidPitch(it) == it.kind = "note" /\ ~from_string(it.note).ok

UnknownToken(it) ==
    it.kind \in {"note", "rest"} /\ ~compute_units(it.duration, DEFAULT_UNITS_PER_BAR).ok

UnknownKind(it) == it.kind \notin {"note", "rest"}

RECURSIVE RawUnits(_, _)
RawUnits(d, k) ==
    IF k = 0 THEN 0
    ELSE RawUnits(d, k - 1) + compute_units(d[k].duration, DEFAULT_UNITS_PER_BAR).units

BadItem(it) == InvalidPitch(it) \/ UnknownToken(it) \/ UnknownKind(it)

BadBar(d) ==
    \/ \E k \in 1..Len(d) : BadItem(d[k])
    \/ RawUnits(d, Len(d)) > DEFAULT_UNITS_PER_BAR

\* the notes of a returned bar sit one after the other from unit 0 and end
\* within the bar
LaidOut(notes) ==
    /\ \A j \in 1..Len(notes) :
          /\ notes[j].duration > 0
          /\ notes[j].start = IF j = 1 THEN 0
                              ELSE notes[j - 1].start + notes[j - 1].duration
    /\ notes # <<>> =>
          notes[Len(notes)].start + notes[Len(notes)].duration <= DEFAULT_UNITS_PER_BAR

\* C18: converting an SML clip either returns a clip in which every bar is
\* valid and laid out, or raises; with an invalid pitch, an unknown
\* duration token, an unknown item kind or an overflowing bar at any
\* position, no clip dict is returned.
C18_NoPartialClip ==
    /\ dsl_clip.ok =>
          /\ clip_pc = "returned"
          /\ Len(dsl_clip.bars) = Len(sml_clip.bars)
          /\ \A i \in 1..Len(sml_clip.bars) :
                /\ ~BadBar(sml_clip.bars[i])
                /\ Len(dsl_clip.bars[i].notes) = Len(sml_clip.bars[i])
                /\ LaidOut(dsl_clip.bars[i].notes)
    /\ (\E i \in 1..Len(sml_clip.bars) : BadBar(sml_clip.bars[i])) =>
          /\ ~dsl_clip.ok /\ dsl_clip.bars = <<>>
          /\ clip_pc \in {"start", "built", "raised"}
    /\ clip_pc = "raised" =>
          \E i \in 1..Len(sml_clip.bars) : BadBar(sml_clip.bars[i])

\* two bars that convert followed by an overflowing one: the conversion
\* built the clip, raised in to_spec_clip and returned nothing
C18_Witness ==
    /\ clip_pc = "raised"
    /\ clip_ast.ok
    /\ Len(sml_clip.bars) = 3
    /\ ~BadBar(sml_clip.bars[1]) /\ sml_clip.bars[1] # <<>>
    /\ ~BadBar(sml_clip.bars[2])
    /\ BadBar(sml_clip.bars[3])
    /\ ~dsl_clip.ok /\ dsl_clip.bars = <<>>

--------------------------------------------------------------------------
(* Live player properties *)

\* C19: within a pass the events go to the sink in non-decreasing
\* scheduled time, each scheduled event exactly once, and before each
\* dispatch the player waits max(0, anchor + event_time - now): it never
\* sleeps a negative delay and a late event is dispatched at once.
C19_OnePassDispatch ==
    play_pc \in {"next", "send"} =>
        /\ NonDecreasing(TicksOf(sched))
        /\ dispatched = SubSeq(sched, 1, walked)
        /\ play_pc = "send" =>
              LET due == sched[walked + 1].tick
              IN  /\ slept = NoSleep \/ slept > 0
                  /\ elapsed - now_read = Max(0, due - now_read)
                  /\ (slept = NoSleep) <=> (due <= now_read)
                  /\ slept # NoSleep => slept = due - now_read
        /\ (play_pc = "next" /\ walked = Len(sched)) => dispatched = sched

\* an event other than the first that is already late when the clock is
\* read: no sleep and the clock has not moved before the dispatch
C19_Witness ==
    /\ play_pc = "send"
    /\ walked >= 1
    /\ sched[walked + 1].tick > sched[walked].tick
    /\ now_read > sched[walked + 1].tick
    /\ slept = NoSleep
    /\ elapsed = now_read
    /\ dispatched = SubSeq(sched, 1, walked)

PassOver == passes >= 1 /\ play_pc \in {"loop_top", "returned"}

\* C20: with looping disabled play_dsl_clip returns after exactly one pass
\* in which every scheduled event was dispatched once; with looping
\* enabled it never returns, starts a new pass after each one, forever,
\* and every pass dispatches the same event sequence.
C20_OnePassOrForever ==
    /\ [](play_pc = "returned" => (~loop /\ passes = 1))
    /\ [](PassOver => (dispatched = sched /\ dispatched = pass1))
    /\ ~loop => <>[](play_pc = "returned")
    /\ loop =>
          /\ []<>(play_pc = "loop_top")
          /\ []<>(play_pc = "next" /\ walked = Len(sched))

\* a looping player at the top of its third or later pass, the pass just
\* ended having sent what the first pass sent
C20_Witness ==
    /\ loop /\ passes >= 2 /\ play_pc = "loop_top"
    /\ Len(dispatched) >= 2
    /\ dispatched = pass1

--------------------------------------------------------------------------
(* Live session properties *)

\* C21: a cancellation request made while a session plays is seen between
\* dispatches and the session then stops dispatching: at most the dispatch
\* that was under way when the request came is still made.
C21_CancelStopsDispatch == cancel_requested => sent_after_cancel <= 1

--------------------------------------------------------------------------
(* Batch and live compared *)

Compared == rpc = "rendered" /\ play_pc \in {"scheduled", "raised"}

\* C22: for the same bar index, note starts and note durations the live
\* schedule has the note-on and note-off events of the batch render, at the
\* batch's absolute beat positions (a scheduled time counts
\* 1/(BeatUnit * steps) beat, a tick 1/CompareTicks beat), with the same
\* pitch and the same velocity.
C22_LiveEqualsBatch ==
    Compared =>
        /\ rout.ok /\ play_pc = "scheduled"
        /\ LET b == rout.tracks[1].events
           IN  /\ Len(sched) = Len(b)
               /\ \A k \in 1..Len(sched) :
                     /\ sched[k].tick * CompareTicks = b[k].tick * BeatUnit * steps
                     /\ sched[k].msg.kind = b[k].msg.type
                     /\ sched[k].msg.param1 = b[k].msg.note
                     /\ sched[k].msg.param2 = b[k].msg.velocity

--------------------------------------------------------------------------
(* Curve sampling in the live schedule *)

\* the scheduled events of one kind
OfKind(evs, kind) == SelectSeq(evs, LAMBDA e : e.msg.kind = kind)

\* the non-rest notes of a bar, by position
SoundingAt(b) == {k \in 1..Len(b.notes) : ~b.notes[k].is_rest}

\* the ten sampling times of a note, in scheduled-time units
SampleTimes(b, k) ==
    {LiveTime(b.bar_index * beats_per_bar * BeatUnit + b.notes[k].start_beat)
        + i * b.notes[k].duration_beats : i \in 0..9}

\* the events of a kind at a time
CountAt(evs, kind, time) ==
    Cardinality({j \in 1..Len(evs) : evs[j].msg.kind = kind /\ evs[j].tick = time})

\* the notes of the bar that sample at the time
NotesAt(b, time) == Cardinality({k \in SoundingAt(b) : time \in SampleTimes(b, k)})

SampledAs(b, c, kind) ==
    IF c = <<>> THEN OfKind(sched, kind) = <<>>
    ELSE /\ Len(OfKind(sched, kind)) = 10 * Cardinality(SoundingAt(b))
         /\ \A k \in SoundingAt(b) : \A time \in SampleTimes(b, k) :
               CountAt(sched, kind, time) = NotesAt(b, time)

\* C23: curves are sampled: every non-rest note of a bar with a pitch-bend
\* curve gives exactly 10 pitch-bend events, at beats
\* start + (i/10) * duration for i = 0..9, likewise 10 aftertouch events
\* for an aftertouch curve, none without the curve; the number of events
\* of the schedule is determined by the clip.
C23_TenSamplesPerNote ==
    play_pc = "scheduled" =>
        LET b == live_clip.bars[1]
        IN  /\ SampledAs(b, b.pitch_bend_curve, "pitch_bend")
            /\ SampledAs(b, b.aftertouch_curve, "aftertouch")
            /\ Len(sched) = Len(b.cc) + Len(b.pedal_events)
                            + 2 * Cardinality(SoundingAt(b))
                            + (IF b.pitch_bend_curve = <<>> THEN 0
                               ELSE 10 * Cardinality(SoundingAt(b)))
                            + (IF b.aftertouch_curve = <<>> THEN 0
                               ELSE 10 * Cardinality(SoundingAt(b)))

\* two sounding notes and a rest under a pitch-bend curve and no
\* aftertouch curve: twenty pitch-bend events and no aftertouch event
C23_Witness ==
    /\ play_pc = "scheduled"
    /\ Len(live_clip.bars[1].notes) = 2
    /\ Cardinality(SoundingAt(live_clip.bars[1])) = 2
    /\ live_clip.bars[1].pitch_bend_curve # <<>>
    /\ live_clip.bars[1].aftertouch_curve = <<>>
    /\ Len(OfKind(sched, "pitch_bend")) = 20
    /\ OfKind(sched, "aftertouch") = <<>>

--------------------------------------------------------------------------
(* C24 *)

\* the rows of the three clip tables
ClipRows(d) == <<d.clips, d.clip_bars, d.notes>>

\* the notes of a bar dict handed to the service
ArgNotes(bar_data) == IF "notes" \in DOMAIN bar_data THEN bar_data.notes ELSE <<>>

\* the k-th bar of the clip dict is stored as the k-th clip_bar row of the
\* clip, and its notes as the note rows of that bar, in order
BarPersisted(d, clip_id, k) ==
    LET stored == FindBy(d.clip_bars, "clip_id", clip_id)[k]
        kept   == FindBy(d.notes, "clip_bar_id", stored.id)
        given  == ArgNotes(svc_arg.bars[k])
    IN  /\ stored.bar_index = svc_arg.bars[k].bar_index
        /\ Len(kept) = Len(given)
        /\ \A i \in 1..Len(given) :
              /\ kept[i].pitch = Get(given[i], "absolute_pitch")
              /\ kept[i].start_beat = given[i].start
              /\ kept[i].duration_beats = given[i].duration

\* C24: create_clip_from_dsl is atomic.  When it raises (a failed INSERT of
\* the clip, a bar or a note, or a failed commit), the clip, clip_bar and
\* note rows of the database are those from before the call; when it returns
\* a clip id, the clip row, one clip_bar row per bar and one note row per note
\* are committed next to the earlier rows, and get_clip_with_bars_and_notes
\* of the id returns the clip with all its bars and all their notes.
C24_CreateClipAtomic ==
    /\ svc_pc = "raised" => ClipRows(db) = ClipRows(db0)
    /\ svc_pc \in {"returned", "fetched"} =>
          /\ Len(db.clips) = Len(db0.clips) + 1
          /\ SubSeq(db.clips, 1, Len(db0.clips)) = db0.clips
          /\ SubSeq(db.clip_bars, 1, Len(db0.clip_bars)) = db0.clip_bars
          /\ SubSeq(db.notes, 1, Len(db0.notes)) = db0.notes
          /\ db.clips[Len(db.clips)].id = svc_out.ret
          /\ db.clips[Len(db.clips)].name = svc_arg.name
          /\ Len(FindBy(db.clip_bars, "clip_id", svc_out.ret)) = Len(svc_arg.bars)
          /\ \A k \in 1..Len(svc_arg.bars) : BarPersisted(db, svc_out.ret, k)
    /\ svc_pc = "fetched" =>
          /\ fetched.found
          /\ fetched.id = svc_out.ret
          /\ Len(fetched.bars) = Len(svc_arg.bars)
          /\ \A k \in 1..Len(svc_arg.bars) :
                \E j \in 1..Len(fetched.bars) :
                    /\ fetched.bars[j].bar_index = svc_arg.bars[k].bar_index
                    /\ Len(fetched.bars[j].notes) = Len(ArgNotes(svc_arg.bars[k]))

\* a call that raised after the clip and a bar had been inserted, on a
\* database that held rows before
C24_Witness ==
    /\ svc_pc = "raised"
    /\ svc_out.made >= 3
    /\ db0 = PriorDb

\* a call that returned a clip with two bars and a note, fetched afterwards
C24_WitnessFetched ==
    /\ svc_pc = "fetched"
    /\ Len(fetched.bars) = 2
    /\ \E j \in 1..2 : Len(fetched.bars[j].notes) >= 1

--------------------------------------------------------------------------
(* C25, C29 *)

\* the position of a DSL clip id in the parser's clip library
PositionOf(order, clip_id) == CHOOSE j \in 1..Len(order) : order[j] = clip_id

\* the track rows of the composition the load created, in insertion order
LoadedTracks == FindBy(db.tracks, "composition_id", load_out.composition_id)

LoadCompleted == load_pc \in {"loaded", "exported", "export_raised", "reparsed"}

\* C29: after load_dsl_to_db has completed, the clip_id of every track_bar row
\* of the composition is the id the database gave to the clip created from
\* the clip_library entry the parsed reference names.
C29_TrackBarsReferenceCreatedClips ==
    LoadCompleted =>
        \A t \in 1..Len(load_out.parsed.tracks) :
            \A j \in 1..Len(load_out.parsed.tracks[t].bars) :
                FindBy(db.track_bars, "track_id", LoadedTracks[t].id)[j].clip_id
                    = load_out.clip_ids[
                          PositionOf(load_out.parsed.order,
                                     load_out.parsed.tracks[t].bars[j].clip_id)]

\* the references of the tracks of a parsed project
TrackRefs(parsed) == [t \in 1..Len(parsed.tracks) |-> parsed.tracks[t].bars]

\* the notes of a parsed clip, bar by bar
NotesPerBar(clip) ==
    [b \in 1..Len(clip.bars) |->
        [bar_index |-> clip.bars[b].bar_index,
         notes |-> [i \in 1..Len(clip.bars[b].notes) |->
                      <<clip.bars[b].notes[i].absolute_pitch,
                        clip.bars[b].notes[i].start,
                        clip.bars[b].notes[i].duration>>]]]

\* C25: a project loaded with load_dsl_to_db and exported with
\* composition_to_dsl has the name, the tracks and the clip library of the
\* original, and parsing the exported project gives every track the
\* (bar_index, clip_id, clip_bar_index) references and every clip the notes
\* per bar that parsing the original gave.
C25_LoadExportRoundTrip ==
    /\ load_pc # "export_raised"
    /\ load_pc \in {"exported", "reparsed"} =>
          /\ exported.name = load_project.name
          /\ Len(exported.tracks) = Len(load_project.tracks)
          /\ {exported.clip_library[k].clip_id : k \in 1..Len(exported.clip_library)}
                = {load_project.clip_library[k].clip_id :
                      k \in 1..Len(load_project.clip_library)}
    /\ load_pc = "reparsed" =>
          /\ reparsed.err = ""
          /\ TrackRefs(reparsed) = TrackRefs(load_out.parsed)
          /\ \A id \in DOMAIN load_out.parsed.lib :
                /\ id \in DOMAIN reparsed.lib
                /\ NotesPerBar(reparsed.lib[id]) = NotesPerBar(load_out.parsed.lib[id])

\* C25 for a project whose clips are declared 1, 2 in library order, loaded
\* into an empty database, every clip placed, every placement one bar long
C25_RoundTripOfPlainProject ==
    (/\ load_pc = "reparsed"
     /\ db0 = EmptyDb
     /\ load_out.clip_ids = load_out.parsed.order
     /\ ReferencedClipIds([tracks |-> load_out.parsed.tracks])
           = DOMAIN load_out.parsed.lib
     /\ \A t \in 1..Len(load_project.tracks) :
           load_project.tracks[t].clips[1].length_bars = 1)
    => /\ reparsed.err = ""
       /\ TrackRefs(reparsed) = TrackRefs(load_out.parsed)
       /\ \A id \in DOMAIN load_out.parsed.lib :
             /\ id \in DOMAIN reparsed.lib
             /\ NotesPerBar(reparsed.lib[id]) = NotesPerBar(load_out.parsed.lib[id])

--------------------------------------------------------------------------
(* C26 *)

\* C26: a bar built at the grid resolution raw.units_per_bar that has passed
\* Clip.validate_and_layout holds at most raw.units_per_bar duration units.
C26_ValidatedBarFitsOwnGrid ==
    (outcome.by = "validate_and_layout" /\ ~outcome.raised)
        => SumUnits(bar.items, Len(bar.items)) <= raw.units_per_bar

--------------------------------------------------------------------------
(* C27, C28 *)

\* the sum of the delta times of the first k messages
RECURSIVE SumTimes(_, _)
SumTimes(msgs, k) == IF k = 0 THEN 0 ELSE SumTimes(msgs, k - 1) + msgs[k].time

\* C27: in every rendered track the deltas emitted up to and including an
\* event add up to the absolute tick of that event.
C27_DeltasSumToAbsoluteTick ==
    Rendered =>
        \A i \in 1..Len(rout.tracks) :
            \A k \in 1..Len(rout.tracks[i].events) :
                SumTimes(NoteMessages(rout.tracks[i]), k) = rout.tracks[i].events[k].tick

\* C27 for tracks whose bar indices are all at least 1
C27_DeltasSumFromBarOne ==
    (Rendered /\ \A i \in 1..Len(rdata.tracks) :
                    \A j \in 1..Len(rdata.tracks[i].bars) :
                        rdata.tracks[i].bars[j].bar_index >= 1)
    => \A i \in 1..Len(rout.tracks) :
            \A k \in 1..Len(rout.tracks[i].events) :
                SumTimes(NoteMessages(rout.tracks[i]), k) = rout.tracks[i].events[k].tick

\* every sounding note of the document has a pitch that is a MIDI data byte
PitchesValid ==
    \A i \in 1..Len(rdata.tracks) :
        LET placed == Sounding(rdata.clips, rdata.tracks[i].bars, 1)
        IN  \A j \in 1..Len(placed) : DataByteOk(placed[j].note.absolute_pitch)

\* C28: whatever the bar velocity curves are, a render of notes with valid
\* pitches completes, and every note-on it emits has a velocity in 0..127.
C28_VelocityClamped ==
    rpc = "rendered" =>
        /\ PitchesValid => rout.ok
        /\ rout.ok =>
              \A i \in 1..Len(rout.tracks) :
                  \A k \in 1..Len(rout.tracks[i].messages) :
                      rout.tracks[i].messages[k].type = "note_on"
                          => rout.tracks[i].messages[k].velocity \in 0..127

\* C28 for curves whose values are all in 0..127
C28_InRangeCurvesRender ==
    (rpc = "rendered"
     /\ \A c \in DOMAIN rdata.clips : \A b \in 1..Len(rdata.clips[c]) :
           \A p \in 1..Len(rdata.clips[c][b].velocity_curve) :
               rdata.clips[c][b].velocity_curve[p].value \in 0..127)
    => /\ PitchesValid => rout.ok
       /\ rout.ok =>
              \A i \in 1..Len(rout.tracks) :
                  \A k \in 1..Len(rout.tracks[i].messages) :
                      rout.tracks[i].messages[k].type = "note_on"
                          => rout.tracks[i].messages[k].velocity \in 0..127

--------------------------------------------------------------------------
(* C30 *)

\* the notes of a clip dict, whether nested in bars or flat
NotesOfDict(clip) ==
    IF "bars" \in DOMAIN clip
    THEN UNION {{<<k, i>> : i \in 1..Len(clip.bars[k].notes)} : k \in 1..Len(clip.bars)}
    ELSE {<<0, i>> : i \in 1..Len(clip.notes)}

NoteOfDict(clip, at) ==
    IF at[1] = 0 THEN clip.notes[at[2]] ELSE clip.bars[at[1]].notes[at[2]]

SoundingOfDict(clip) == {at \in NotesOfDict(clip) : ~IsRest(NoteOfDict(clip, at))}

Handed == play_pc \in {"scheduled", "raised"}

\* C30: for a clip dict the facade has handed to the player, the schedule is
\* built without an exception and holds one note-on and one note-off for
\* every note of the dict that is not a rest.
C30_FacadeClipsPlayable ==
    Handed =>
        /\ play_pc = "scheduled"
        /\ Len(OfKind(sched, "note_on")) = Cardinality(SoundingOfDict(live_clip))
        /\ Len(OfKind(sched, "note_off")) = Cardinality(SoundingOfDict(live_clip))

\* C30 for clips without a sounding note
C30_SilentClipsPlayable ==
    (Handed /\ SoundingOfDict(live_clip) = {})
        => play_pc = "scheduled" /\ sched = <<>>

=============================================================================
